---- MODULE Spec2Model ----
(***************************************************************************)
(* Road-generation primitives of commonroad/generator/primitive.py.       *)
(*                                                                         *)
(* Numbers.  The program computes with floats.  Here every length is a     *)
(* fixed-point integer with Unit steps per length unit and every angle an  *)
(* integer with AngleUnit steps per radian; products and quotients round   *)
(* to the nearest step (symmetrically), which takes the place of float     *)
(* rounding.                                                               *)
(*                                                                         *)
(* Objects.  An Export bundle is an object graph.  Every schema object of  *)
(* a bundle carries the identity `id` it got when it was constructed, the  *)
(* pairs of a bundle hold ids (references), and the schema.point objects   *)
(* of boundaries and junction polygons live in the bundle's point heap     *)
(* `heap` (a boundary is a sequence of heap addresses), so that an         *)
(* in-place update of a point is seen through every reference to it.       *)
(***************************************************************************)
EXTENDS Integers, Sequences, FiniteSets, TLC

VARIABLES prim, config, ret, exports

vars == <<prim, config, ret, exports>>

----------------------------------------------------------------------------
(* Fixed-point arithmetic *)

Unit == 10 * 10 * 10

AngleUnit == 10 * Unit

Abs(x) == IF x < 0 THEN -x ELSE x

\* the float literal n / d
Float(n, d) == (n * Unit) \div d

Sign(x) == IF x < 0 THEN -1 ELSE IF x > 0 THEN 1 ELSE 0

\* a / b rounded to the nearest integer, halves away from zero (b > 0)
RDiv(a, b) == IF a < 0 THEN -((b \div 2 - a) \div b) ELSE (a + b \div 2) \div b

\* product and quotient of two fixed-point numbers
Mul(a, b) == RDiv(a * b, Unit)

Div(a, b) == IF b < 0 THEN RDiv(-(a * Unit), -b) ELSE RDiv(a * Unit, b)

RECURSIVE SqrtIter(_, _, _)
SqrtIter(n, lo, hi) ==
    IF lo >= hi THEN lo
    ELSE LET mid == (lo + hi + 1) \div 2
         IN  IF mid * mid <= n THEN SqrtIter(n, mid, hi) ELSE SqrtIter(n, lo, mid - 1)

\* floor of the square root of n, 0 <= n < 2^31
ISqrt(n) == SqrtIter(n, 0, 46340)

\* nearest integer to the square root of n
RSqrt(n) ==
    LET Nearest(r) == IF n - r * r > r THEN r + 1 ELSE r
    IN  Nearest(ISqrt(n))

----------------------------------------------------------------------------
(* Angles: math.pi, math.radians, math.cos, math.sin, math.atan2 *)

\* math.pi in angle steps
Pi == RDiv(314159265, 10000)

HalfPi == Pi \div 2

\* math.radians(deg)
Radians(deg) == RDiv(deg * Pi, 180)

\* cosine and sine series on [0, pi/4], argument and value in angle steps
CosSeries(x) ==
    LET Terms(x2, x4) ==
            AngleUnit - RDiv(x2, 2) + RDiv(x4, 24) - RDiv(RDiv(x4 * x2, AngleUnit), 720)
        Powers(x2) == Terms(x2, RDiv(x2 * x2, AngleUnit))
    IN  Powers(RDiv(x * x, AngleUnit))

\* x - x^3 / d3 + x^5 / d5 - x^7 / d7, every power rounded to an angle step
OddSeries(x, d3, d5, d7) ==
    LET Terms(x2, x3, x5) ==
            x - RDiv(x3, d3) + RDiv(x5, d5) - RDiv(RDiv(x5 * x2, AngleUnit), d7)
        Fifth(x2, x3) == Terms(x2, x3, RDiv(x3 * x2, AngleUnit))
        Third(x2) == Fifth(x2, RDiv(x * x2, AngleUnit))
    IN  Third(RDiv(x * x, AngleUnit))

SinSeries(x) == OddSeries(x, 6, 120, 5040)

\* cosine on the first quadrant [0, pi/2]
CosQuadrant(x) == IF 2 * x <= HalfPi THEN CosSeries(x) ELSE SinSeries(HalfPi - x)

\* math.cos(a), a in angle steps, value in length steps
Cos(a) ==
    LET \* the angle folded into the first quadrant, and the sign of its cosine
        Folded(r) == IF r <= HalfPi THEN <<r, 1>>
                     ELSE IF r <= Pi THEN <<Pi - r, -1>>
                     ELSE IF r <= Pi + HalfPi THEN <<r - Pi, -1>>
                     ELSE <<2 * Pi - r, 1>>
        Signed(f) == f[2] * CosQuadrant(f[1])
    IN  RDiv(Signed(Folded(a % (2 * Pi))), AngleUnit \div Unit)

\* math.sin(a)
Sin(a) == Cos(a - HalfPi)

\* product of two numbers >= 0 in steps of 1 / (Unit * Unit), split into thousands
\* so that every intermediate value stays within 32 bits
FineMul(a, b) ==
    LET Split(ah, al, bh, bl) ==
            ah * bh + RDiv(ah * bl + al * bh + RDiv(al * bl, Unit), Unit)
    IN  Split(a \div Unit, a % Unit, b \div Unit, b % Unit)

\* cosine and sine series on [0, pi/4], argument and value in steps of
\* 1 / (Unit * Unit)
CosFineSeries(x) ==
    LET Terms(x2, x4) ==
            Unit * Unit - RDiv(x2, 2) + RDiv(x4, 24) - RDiv(FineMul(x4, x2), 720)
                + RDiv(FineMul(x4, x4), 40320)
        Powers(x2) == Terms(x2, FineMul(x2, x2))
    IN  Powers(FineMul(x, x))

SinFineSeries(x) ==
    LET Terms(x2, x3, x5) ==
            x - RDiv(x3, 6) + RDiv(x5, 120) - RDiv(FineMul(x5, x2), 5040)
                + RDiv(FineMul(FineMul(x5, x2), x2), 362880)
        Fifth(x2, x3) == Terms(x2, x3, FineMul(x3, x2))
        Third(x2) == Fifth(x2, FineMul(x, x2))
    IN  Third(FineMul(x, x))

\* math.cos(a), a in angle steps, value in steps of 1 / (Unit * Unit)
CosFine(a) ==
    LET Fine(x) == x * ((Unit * Unit) \div AngleUnit)
        Quadrant(x) == IF 2 * x <= HalfPi THEN CosFineSeries(Fine(x))
                       ELSE SinFineSeries(Fine(HalfPi - x))
        Folded(r) == IF r <= HalfPi THEN Quadrant(r)
                     ELSE IF r <= Pi THEN -Quadrant(Pi - r)
                     ELSE IF r <= Pi + HalfPi THEN -Quadrant(r - Pi)
                     ELSE Quadrant(2 * Pi - r)
    IN  Folded(a % (2 * Pi))

\* math.cos(a) * r and math.sin(a) * r for a length r >= 0, rounded once, to a
\* length step
CosTimes(a, r) ==
    LET Times(c, f) == c * RDiv(r * (f \div Unit) + RDiv(r * (f % Unit), Unit), Unit)
        Signed(f) == Times(Sign(f), Abs(f))
    IN  Signed(CosFine(a))

SinTimes(a, r) == CosTimes(a - HalfPi, r)

\* arctangent series on [0, tan(pi/8)], argument and value in angle steps
AtanSeries(z) == OddSeries(z, 3, 5, 7)

\* arctangent of a ratio in [0, 1]
AtanUnit(z) ==
    IF 10000 * z > 4142 * AngleUnit
    THEN (HalfPi \div 2) - AtanSeries(RDiv((AngleUnit - z) * AngleUnit, AngleUnit + z))
    ELSE AtanSeries(z)

\* math.atan2(y, x), value in angle steps in (-pi, pi]
Atan2(y, x) ==
    LET \* the angle of (|x|, |y|), in [0, pi/2]
        Base(ax, ay) == IF ax = 0 /\ ay = 0 THEN 0
                        ELSE IF ay <= ax THEN AtanUnit(RDiv(ay * AngleUnit, ax))
                        ELSE HalfPi - AtanUnit(RDiv(ax * AngleUnit, ay))
        Placed(base) == IF x >= 0 THEN (IF y >= 0 THEN base ELSE -base)
                        ELSE (IF y >= 0 THEN Pi - base ELSE -(Pi - base))
    IN  Placed(Base(Abs(x), Abs(y)))

----------------------------------------------------------------------------
(* Vectors, results of calls, module-level helpers *)

\* np.linalg.norm of the vector (x, y); long vectors are scaled before squaring
Norm(x, y) ==
    LET Length(u, v) == RSqrt(u * u + v * v)
        Scaled(k) == IF k = 1 THEN Length(x, y) ELSE k * Length(RDiv(x, k), RDiv(y, k))
    IN  Scaled((IF Abs(x) > Abs(y) THEN Abs(x) ELSE Abs(y)) \div 32767 + 1)

\* a call returns a value or raises an exception
Ok(v) == [ok |-> TRUE, val |-> v]

Raise(e) == [ok |-> FALSE, exc |-> e]

\* dict.get(key, default) on a constructor's args
Get(args, key, default) == IF key \in DOMAIN args THEN args[key] ELSE default

\* Python negative indexing: seq[-1] is Last(seq, 1)
Last(seq, k) == seq[Len(seq) + 1 - k]

Reverse(seq) == [i \in 1..Len(seq) |-> seq[Len(seq) + 1 - i]]

\* circle through three points: the centre and the radius, or None (found = FALSE)
\* when the matrix [s1 s2] has rank < 2
circle_from_points(x1, y1, x2, y2, x3, y3) ==
    LET s1x == y2 - y1
        s1y == -(x2 - x1)
        s2x == y3 - y2
        s2y == -(x3 - x2)
        \* 2 * b = 2 * (mid2 - mid1)
        bx2 == x3 - x1
        by2 == y3 - y1
        det == s1x * s2y - s2x * s1y
        \* result[0] = num / (2 * det) by Cramer's rule
        num == bx2 * s2y - s2x * by2
        \* circle_mid - (x1, y1) = (mid1 - (x1, y1)) + result[0] * s1
        relx == RDiv(Sign(det) * ((x2 - x1) * det + num * s1x), 2 * Abs(det))
        rely == RDiv(Sign(det) * ((y2 - y1) * det + num * s1y), 2 * Abs(det))
    IN  IF det = 0 THEN [found |-> FALSE]
        ELSE [found |-> TRUE, circle_mid |-> <<x1 + relx, y1 + rely>>,
              radius |-> Norm(relx, rely)]

\* np.cross(b - a, c - a) > 0
is_left(a, b, c) ==
    (b[1] - a[1]) * (c[2] - a[2]) - (b[2] - a[2]) * (c[1] - a[1]) > 0

\* convert_line_marking without the test for "missing"
convert_line_marking_kept(marking) ==
    IF marking = "None" THEN "None" ELSE marking

convert_line_marking(marking) ==
    IF marking = "None" \/ marking = "missing" THEN "None" ELSE marking

----------------------------------------------------------------------------
(* Constructors.  A primitive is a record of the fields its __init__ sets. *)

\* curvature 1 / radius, in steps of 1 / (Unit * Unit) per length unit
Inverse(radius) == RDiv(Unit * Unit * Unit, radius)

\* the values t takes in `t = 0; while t <= 1: ...; t += t_step`: the float sum
\* of 1 / t_step steps lies above 1 (100 additions of 0.01 give
\* 1.0000000000000007), so the sample t = 1 is not taken
TSamples(t_step) == [k \in 1..(Unit \div t_step) |-> (k - 1) * t_step]

\* np.arange(start, stop, step): ceil((stop - start) / step) values
ARange(start, stop, step) ==
    LET span == IF step > 0 THEN stop - start ELSE start - stop
        n == IF span <= 0 THEN 0 ELSE (span + Abs(step) - 1) \div Abs(step)
    IN  [k \in 1..n |-> start + (k - 1) * step]

Lerp(t, p, q) == <<Mul(Unit - t, p[1]) + Mul(t, q[1]), Mul(Unit - t, p[2]) + Mul(t, q[2])>>

_compute_cubic_bezier(t, p0, p1, p2, p3) ==
    LET c0 == Lerp(t, p0, p1)
        c1 == Lerp(t, p1, p2)
        c2 == Lerp(t, p2, p3)
        d0 == Lerp(t, c0, c1)
        d1 == Lerp(t, c1, c2)
    IN  Lerp(t, d0, d1)

StraightLine(args) ==
    [kind |-> "StraightLine",
     length |-> args.length,
     left_line |-> Get(args, "leftLine", "solid"),
     middle_line |-> Get(args, "middleLine", "dashed"),
     right_line |-> Get(args, "rightLine", "solid"),
     is_start |-> Get(args, "isStart", FALSE)]

LeftCircularArc(args) ==
    [kind |-> "LeftCircularArc",
     radius |-> args.radius,
     angle |-> Radians(args.angle),
     left_line |-> Get(args, "leftLine", "solid"),
     middle_line |-> Get(args, "middleLine", "dashed"),
     right_line |-> Get(args, "rightLine", "solid")]

RightCircularArc(args) ==
    [kind |-> "RightCircularArc",
     radius |-> args.radius,
     angle |-> Radians(args.angle),
     left_line |-> Get(args, "leftLine", "solid"),
     middle_line |-> Get(args, "middleLine", "dashed"),
     right_line |-> Get(args, "rightLine", "solid")]

QuadBezier(args) ==
    LET p0 == <<0, 0>>
        p1 == <<args.p1x, args.p1y>>
        p2 == <<args.p2x, args.p2y>>
        ts == TSamples(Unit \div 100)
    IN  [kind |-> "QuadBezier", p0 |-> p0, p1 |-> p1, p2 |-> p2,
         left_line |-> Get(args, "leftLine", "solid"),
         middle_line |-> Get(args, "middleLine", "dashed"),
         right_line |-> Get(args, "rightLine", "solid"),
         points |-> [k \in 1..Len(ts) |->
                        Lerp(ts[k], Lerp(ts[k], p0, p1), Lerp(ts[k], p1, p2))]]

CubicBezier(args) ==
    LET p0 == <<0, 0>>
        p1 == <<args.p1x, args.p1y>>
        p2 == <<args.p2x, args.p2y>>
        p3 == <<args.p3x, args.p3y>>
        ts == TSamples(Unit \div 100)
    IN  [kind |-> "CubicBezier", p0 |-> p0, p1 |-> p1, p2 |-> p2, p3 |-> p3,
         left_line |-> Get(args, "leftLine", "solid"),
         middle_line |-> Get(args, "middleLine", "dashed"),
         right_line |-> Get(args, "rightLine", "solid"),
         points |-> [k \in 1..Len(ts) |-> _compute_cubic_bezier(ts[k], p0, p1, p2, p3)]]

\* math.sqrt(math.pi) in length steps
SqrtPi == RSqrt(Pi * ((Unit * Unit) \div AngleUnit))

\* the Fresnel integrals of 0..l of cos(pi t^2 / 2) and sin(pi t^2 / 2), which
\* integrate.quad evaluates, by their power series in q = pi l^2 / 2 (|l| <= 1)
Fresnel(l) ==
    LET Sums(q, q2, q4, q6) ==
            <<Mul(l, Unit - RDiv(q2, 10) + RDiv(q4, 216) - RDiv(q6, 9360)
                          + RDiv(Mul(q4, q4), 685440)),
              Mul(l, RDiv(q, 3) - RDiv(Mul(q2, q), 42) + RDiv(Mul(q4, q), 1320)
                          - RDiv(Mul(q6, q), 75600))>>
        Sixth(q, q2, q4) == Sums(q, q2, q4, Mul(q4, q2))
        Fourth(q, q2) == Sixth(q, q2, Mul(q2, q2))
        Second(q) == Fourth(q, Mul(q, q))
    IN  Second(Mul(RDiv(HalfPi * Unit, AngleUnit), Mul(l, l)))

euler_spiral(l, A) ==
    LET Scaled(factor, integrals) == <<Mul(factor, integrals[1]), Mul(factor, integrals[2])>>
    IN  Scaled(Mul(A, SqrtPi), Fresnel(l))

\* Clothoid(curvature_begin, curvature_end, a): the curvatures in curvature steps
Clothoid(curvature_begin, curvature_end, a) ==
    LET len_begin == RDiv(RDiv(Abs(curvature_begin), Unit) * a, SqrtPi)
        len_end == RDiv(RDiv(Abs(curvature_end), Unit) * a, SqrtPi)
        lb == ARange(-len_begin, 0, Unit \div 100)
        le == ARange(0, len_end, Unit \div 100)
        \* np.array([x, -y]) for a negative curvature
        Sided(point, curvature) ==
            IF curvature < 0 THEN <<point[1], -point[2]>> ELSE point
        begin_points ==
            [k \in 1..Len(lb) |-> Sided(euler_spiral(lb[k], a), curvature_begin)]
        end_points ==
            [k \in 1..Len(le) |-> Sided(euler_spiral(le[k], a), curvature_end)]
    IN  [kind |-> "Clothoid", curv_begin |-> curvature_begin, curv_end |-> curvature_end,
         a |-> a, points |-> begin_points \o end_points]

\* Intersection._size
IntersectionSize == 900

Intersection(args) ==
    [kind |-> "Intersection",
     size |-> IntersectionSize,
     target_dir |-> args.turn,
     rule |-> args.rule,
     points |-> CASE args.turn = "left" ->
                       << <<0, -IntersectionSize>>, <<0, 0>>, <<-IntersectionSize, 0>> >>
                  [] args.turn = "right" ->
                       << <<0, -IntersectionSize>>, <<0, 0>>, <<IntersectionSize, 0>> >>
                  [] args.turn = "straight" ->
                       << <<0, -IntersectionSize>>, <<0, 0>>, <<0, IntersectionSize>> >>]

TransrotPrimitive(child, translation, angle) ==
    [kind |-> "TransrotPrimitive", child |-> child, angle |-> angle,
     translation |-> translation]

\* decorated straights: subclasses of StraightLine (the subclass's fields first)
StraightLineObstacle(args) ==
    [kind |-> "StraightLineObstacle", width |-> args.width,
     position |-> args.position, anchor |-> args.anchor] @@ StraightLine(args)

ParkingObstacle(args) ==
    [kind |-> "ParkingObstacle", width |-> args.width] @@ StraightLine(args)

ParkingLot(args) == [kind |-> "ParkingLot"] @@ StraightLine(args)

BlockedAreaObstacle(args) ==
    [kind |-> "BlockedAreaObstacle", obst_width |-> args.width] @@ StraightLine(args)

ZebraCrossing(args) ==
    [kind |-> "ZebraCrossing"] @@
    StraightLine([length |-> args.length, leftLine |-> "solid", rightLine |-> "solid",
                  middleLine |-> "missing"])

TrafficSign(args) ==
    [kind |-> "TrafficSign", traffic_sign |-> args.type,
     on_opposite_side |-> Get(args, "on_opposite_side", FALSE)] @@
    StraightLine([length |-> Unit \div 100])

\* Ramp._padding
RampPadding == 400

\* length of the ramp model in Ramp.__init__
RampModelLength == 1800

Ramp(args) ==
    [kind |-> "Ramp", signDistance |-> args.signDistance, padding |-> RampPadding] @@
    StraightLine([length |-> RampModelLength + args.signDistance * 2 + 2 * RampPadding])

\* TrafficIsland._padding
IslandPadding == 200

\* TrafficIsland._curve_area_length
IslandCurveAreaLength == 800

TrafficIsland(args) ==
    LET length == IslandPadding * 2 + IslandCurveAreaLength * 2 + args.zebraLength
        \* get_points() of the island under construction
        points == << <<0, 0>>, <<length, 0>> >>
        \* v / np.linalg.norm(v)
        Normalised(v, n) == <<Div(v[1], n), Div(v[2], n)>>
        Direction(v) == Normalised(v, Norm(v[1], v[2]))
        Fields(principal) ==
            [kind |-> "TrafficIsland",
             islandWidth |-> args.islandWidth,
             zebraLength |-> args.zebraLength,
             signDistance |-> args.signDistance,
             zebraMarkingType |-> args.zebraMarkingType,
             padding |-> IslandPadding,
             curve_area_length |-> IslandCurveAreaLength,
             length |-> length,
             principal_direction |-> principal,
             orthogonal_direction |-> Direction(<<-principal[2], principal[1]>>)]
    IN  Fields(Direction(<<points[2][1] - points[1][1], points[2][2] - points[1][2]>>))

\* the classes that inherit StraightLine's get_points, get_beginning, get_ending
StraightKinds ==
    {"StraightLine", "StraightLineObstacle", "ParkingObstacle", "ParkingLot",
     "BlockedAreaObstacle", "ZebraCrossing", "TrafficSign", "Ramp"}

----------------------------------------------------------------------------
(* get_points, get_beginning, get_ending *)

\* _get_matrix without its second factor: the rotation is about the origin
Matrix_aboutOrigin(angle, translation, begin) ==
    LET bx == begin[1][1]
        by == begin[1][2]
        Rows(cos, sin) ==
            [a |-> cos, b |-> -sin, c |-> translation[1] + bx,
             d |-> sin, e |-> cos, f |-> translation[2] + by]
    IN  Rows(Cos(angle), Sin(angle))

\* the rigid transform [[a, b, c], [d, e, f], [0, 0, 1]] of _get_matrix, given the
\* child's beginning
Matrix(angle, translation, begin) ==
    LET bx == begin[1][1]
        by == begin[1][2]
        Rows(cos, sin) ==
            [a |-> cos, b |-> -sin,
             c |-> Mul(cos, -bx) + Mul(-sin, -by) + (translation[1] + bx),
             d |-> sin, e |-> cos,
             f |-> Mul(sin, -bx) + Mul(cos, -by) + (translation[2] + by)]
    IN  Rows(Cos(angle), Sin(angle))

\* matrix.dot(np.append(point, 1))[0:2]
Apply(m, point) ==
    <<Mul(m.a, point[1]) + Mul(m.b, point[2]) + m.c,
      Mul(m.d, point[1]) + Mul(m.e, point[2]) + m.f>>

\* Primitive.get_beginning: the pose from the first three samples
PrimitiveGetBeginning(points) ==
    IF Len(points) < 3 THEN Raise("IndexError")
    ELSE LET p1 == points[1]
             p2 == points[2]
             \* the pose, given what circle_from_points returned
             Pose(c) ==
                IF ~c.found THEN Raise("TypeError")
                ELSE Ok(<<p1, Atan2(p1[2] - p2[2], p1[1] - p2[1]),
                          Inverse(IF ~is_left(points[2], points[1], c.circle_mid)
                                  THEN -c.radius ELSE c.radius)>>)
         IN  Pose(circle_from_points(points[1][1], points[1][2], points[2][1],
                                     points[2][2], points[3][1], points[3][2]))

\* Primitive.get_ending: the pose from the last three samples
PrimitiveGetEnding(points) ==
    IF Len(points) < 3 THEN Raise("IndexError")
    ELSE LET p1 == Last(points, 1)
             p2 == Last(points, 2)
             \* the pose, given what circle_from_points returned
             Pose(c) ==
                IF ~c.found THEN Raise("TypeError")
                ELSE Ok(<<p1, Atan2(p1[2] - p2[2], p1[1] - p2[1]),
                          Inverse(IF ~is_left(Last(points, 2), Last(points, 1), c.circle_mid)
                                  THEN -c.radius ELSE c.radius)>>)
         IN  Pose(circle_from_points(Last(points, 1)[1], Last(points, 1)[2],
                                     Last(points, 2)[1], Last(points, 2)[2],
                                     Last(points, 3)[1], Last(points, 3)[2]))

LeftArcPoint(p, a) ==
    <<CosTimes(a - HalfPi, p.radius), p.radius + SinTimes(a - HalfPi, p.radius)>>

RightArcPoint(p, a) ==
    <<CosTimes(HalfPi - a, p.radius), -p.radius + SinTimes(HalfPi - a, p.radius)>>

\* the angles of `current_angle = 0; while current_angle <= angle: ... += 0.01`
ArcAngles(angle) ==
    [k \in 1..(IF angle < 0 THEN 0 ELSE angle \div (AngleUnit \div 100) + 1) |->
        (k - 1) * (AngleUnit \div 100)]

RECURSIVE get_beginning(_)
get_beginning(p) ==
    CASE p.kind \in StraightKinds -> Ok(<< <<0, 0>>, Pi, 0 >>)
      [] p.kind = "LeftCircularArc" -> Ok(<< <<0, 0>>, Pi, Inverse(p.radius) >>)
      [] p.kind = "RightCircularArc" -> Ok(<< <<0, 0>>, Pi, -Inverse(p.radius) >>)
      [] p.kind \in {"QuadBezier", "CubicBezier"} -> PrimitiveGetBeginning(p.points)
      [] p.kind = "Clothoid" ->
            IF Len(p.points) < 2 THEN Raise("IndexError")
            ELSE Ok(<<p.points[1],
                      Atan2(p.points[1][2] - p.points[2][2], p.points[1][1] - p.points[2][1]),
                      p.curv_begin>>)
      [] p.kind = "Intersection" -> Ok(<< <<0, -p.size>>, RDiv(3 * Pi, 2), 0 >>)
      [] p.kind = "TrafficIsland" -> Ok(<< <<0, 0>>, Pi, 0 >>)
      [] p.kind = "TransrotPrimitive" ->
            LET Moved(begin) ==
                    IF ~begin.ok THEN begin
                    ELSE Ok(<<Apply(Matrix(p.angle, p.translation, begin.val), begin.val[1]),
                              begin.val[2] + p.angle, begin.val[3]>>)
            IN  Moved(get_beginning(p.child))

\* TransrotPrimitive._get_matrix
_get_matrix(p) ==
    LET About(begin) ==
            IF ~begin.ok THEN begin ELSE Ok(Matrix(p.angle, p.translation, begin.val))
    IN  About(get_beginning(p.child))

\* TransrotPrimitive._transform_point: _get_matrix() asks the child for its
\* beginning on every call
_transform_point(p, point) ==
    LET Image(m) == IF ~m.ok THEN m ELSE Ok(Apply(m.val, point))
    IN  Image(_get_matrix(p))

RECURSIVE get_points(_)
get_points(p) ==
    CASE p.kind \in StraightKinds -> Ok(<< <<0, 0>>, <<p.length, 0>> >>)
      [] p.kind = "LeftCircularArc" ->
            Ok([k \in 1..Len(ArcAngles(p.angle)) |-> LeftArcPoint(p, ArcAngles(p.angle)[k])])
      [] p.kind = "RightCircularArc" ->
            Ok([k \in 1..Len(ArcAngles(p.angle)) |-> RightArcPoint(p, ArcAngles(p.angle)[k])])
      [] p.kind \in {"QuadBezier", "CubicBezier", "Clothoid", "Intersection"} -> Ok(p.points)
      [] p.kind = "TrafficIsland" -> Ok(<< <<0, 0>>, <<p.length, 0>> >>)
      [] p.kind = "TransrotPrimitive" ->
            LET \* one _transform_point call per sample: none for an empty list
                Moved(pts, m) ==
                    IF ~pts.ok THEN pts
                    ELSE IF pts.val = <<>> THEN Ok(<<>>)
                    ELSE IF ~m.ok THEN m
                    ELSE Ok([k \in 1..Len(pts.val) |-> Apply(m.val, pts.val[k])])
            IN  Moved(get_points(p.child), _get_matrix(p))

\* a line laid out along its start heading instead of against it
StraightLine_get_ending_alongStart(p) == Ok(<< <<-p.length, 0>>, 0, 0 >>)

StraightLine_get_ending(p) == Ok(<< <<p.length, 0>>, 0, 0 >>)

LeftCircularArc_get_ending(p) ==
    Ok(<<LeftArcPoint(p, p.angle), p.angle, -Inverse(p.radius)>>)

\* a right arc whose end curvature keeps the sign of its start curvature
RightCircularArc_get_ending_sameSign(p) ==
    Ok(<<RightArcPoint(p, p.angle), -p.angle, -Inverse(p.radius)>>)

RightCircularArc_get_ending(p) ==
    Ok(<<RightArcPoint(p, p.angle), -p.angle, Inverse(p.radius)>>)

RECURSIVE get_ending(_)
get_ending(p) ==
    CASE p.kind \in StraightKinds -> StraightLine_get_ending(p)
      [] p.kind = "LeftCircularArc" -> LeftCircularArc_get_ending(p)
      [] p.kind = "RightCircularArc" -> RightCircularArc_get_ending(p)
      [] p.kind \in {"QuadBezier", "CubicBezier"} -> PrimitiveGetEnding(p.points)
      [] p.kind = "Clothoid" ->
            IF Len(p.points) < 2 THEN Raise("IndexError")
            ELSE Ok(<<Last(p.points, 1),
                      Atan2(Last(p.points, 1)[2] - Last(p.points, 2)[2],
                            Last(p.points, 1)[1] - Last(p.points, 2)[1]),
                      p.curv_end>>)
      [] p.kind = "Intersection" ->
            (CASE p.target_dir = "left" -> Ok(<< <<-p.size, 0>>, Pi, 0 >>)
               [] p.target_dir = "right" -> Ok(<< <<p.size, 0>>, 0, 0 >>)
               [] p.target_dir = "straight" -> Ok(<< <<0, p.size>>, HalfPi, 0 >>))
      [] p.kind = "TrafficIsland" -> Ok(<< <<p.length + p.zebraLength, 0>>, 0, 0 >>)
      [] p.kind = "TransrotPrimitive" ->
            LET Moved(end, m) ==
                    IF ~end.ok THEN end
                    ELSE IF ~m.ok THEN m
                    ELSE Ok(<<Apply(m.val, end.val[1]), end.val[2] + p.angle, end.val[3]>>)
            IN  Moved(get_ending(p.child), _get_matrix(p))

\* Primitive.get_bounding_box, which TransrotPrimitive inherits: the buffer
\* polygon is kept as the line and the distance it is built from
get_bounding_box(p, street_width) ==
    LET Box(points) ==
            IF ~points.ok THEN points
            ELSE IF Len(points.val) = 0 THEN Raise("MissingPointsException")
            \* LineString rejects a single coordinate
            ELSE IF Len(points.val) = 1 THEN Raise("ValueError")
            ELSE Ok([line |-> points.val, distance |-> street_width,
                     cap_style |-> "flat", join_style |-> "round"])
    IN  Box(get_points(p))

----------------------------------------------------------------------------
(* Schema objects and the Export bundle *)

\* schema.boundary()
boundary == [point |-> <<>>, lineMarking |-> "None"]

\* schema.lanelet(leftBoundary=schema.boundary(), rightBoundary=schema.boundary()),
\* the object constructed at the call site `id`; stopLineAttributes is <<>> (unset)
\* or <<lineWidth, segmentLength, segmentGap>>
lanelet(id) ==
    [cls |-> "lanelet", id |-> id, leftBoundary |-> boundary, rightBoundary |-> boundary,
     stopLine |-> "None", stopLineAttributes |-> <<>>, type |-> "None", isStart |-> FALSE]

\* a lanelet with its boundaries' points and line markings filled in
Filled(l, leftPoints, leftMarking, rightPoints, rightMarking) ==
    [l EXCEPT !.leftBoundary = [point |-> leftPoints, lineMarking |-> leftMarking],
              !.rightBoundary = [point |-> rightPoints, lineMarking |-> rightMarking]]

rectangle(length, width, orientation, centerPoint) ==
    [length |-> length, width |-> width, orientation |-> orientation,
     centerPoint |-> centerPoint]

\* schema.obstacle(role=.., type=.., shape=schema.shape()) with one rectangle appended
obstacle(id, role, type, rect) ==
    [cls |-> "obstacle", id |-> id, role |-> role, type |-> type,
     shape |-> [rectangle |-> <<rect>>]]

trafficSign(id, type, orientation, centerPoint) ==
    [cls |-> "trafficSign", id |-> id, type |-> type, orientation |-> orientation,
     centerPoint |-> centerPoint]

ramp(id, orientation, centerPoint) ==
    [cls |-> "ramp", id |-> id, orientation |-> orientation, centerPoint |-> centerPoint]

roadMarking(id, type, orientation, centerPoint) ==
    [cls |-> "roadMarking", id |-> id, type |-> type, orientation |-> orientation,
     centerPoint |-> centerPoint]

trafficIslandJunction(id, points) ==
    [cls |-> "trafficIslandJunction", id |-> id, point |-> points]

\* Export(objects, lanelet_pairs) with no object yet
EmptyExport == [objects |-> <<>>, lanelet_pairs |-> <<>>, heap |-> <<>>]

\* objects.append(o): every point of o's boundaries is a schema.point constructed
\* for that boundary alone, so each gets a heap cell of its own
AppendObject(b, o) ==
    LET base == Len(b.heap)
    IN  IF o.cls = "lanelet"
        THEN LET nl == Len(o.leftBoundary.point)
                 nr == Len(o.rightBoundary.point)
             IN  [b EXCEPT
                    !.heap = @ \o o.leftBoundary.point \o o.rightBoundary.point,
                    !.objects = Append(@,
                        [o EXCEPT !.leftBoundary.point = [i \in 1..nl |-> base + i],
                                  !.rightBoundary.point = [i \in 1..nr |-> base + nl + i]])]
        ELSE IF o.cls = "trafficIslandJunction"
        THEN [b EXCEPT
                !.heap = @ \o o.point,
                !.objects = Append(@, [o EXCEPT !.point = [i \in 1..Len(o.point) |-> base + i]])]
        ELSE [b EXCEPT !.objects = Append(@, o)]

RECURSIVE AppendObjects(_, _, _)
AppendObjects(b, objs, i) ==
    IF i > Len(objs) THEN b ELSE AppendObjects(AppendObject(b, objs[i]), objs, i + 1)

\* Export(objects, lanelet_pairs): the pairs refer to objects by identity
Export(objects, lanelet_pairs) ==
    [AppendObjects(EmptyExport, objects, 1) EXCEPT !.lanelet_pairs = lanelet_pairs]

\* the points of a boundary, read through the heap
BoundaryPoints(b, bnd) == [i \in 1..Len(bnd.point) |-> b.heap[bnd.point[i]]]

----------------------------------------------------------------------------
(* Primitive.export *)

\* ortho_left of the segment from p1 to p2, scaled to the road width
OrthoLeft(p1, p2, road_width) ==
    LET ox == -(p2[2] - p1[2])
        oy == p2[1] - p1[1]
        Scaled(n) == <<Mul(Div(ox, n), road_width), Mul(Div(oy, n), road_width)>>
    IN  Scaled(Norm(ox, oy))

\* the last index given no offset at all
OrthoAt_lastUnset(points, i, road_width) ==
    LET From(j) == OrthoLeft(points[j], points[j + 1], road_width)
    IN  IF i # Len(points) THEN From(i) ELSE <<0, 0>>

\* the ortho_left in effect at loop index i: the last index reuses the previous one
OrthoAt(points, i, road_width) ==
    LET From(j) == OrthoLeft(points[j], points[j + 1], road_width)
    IN  From(IF i # Len(points) THEN i ELSE i - 1)

HasAttr(p, name) == name \in DOMAIN p

\* the points `left` and `right` of the loop, one per sample
LeftOffsets(points, road_width) ==
    LET Left(p, ortho_left) == <<p[1] + ortho_left[1], p[2] + ortho_left[2]>>
    IN  [i \in 1..Len(points) |-> Left(points[i], OrthoAt(points, i, road_width))]

\* `right` of every sample but the last
RightOffsets_lastDropped(points, road_width) ==
    LET Right(p, ortho_left) == <<p[1] - ortho_left[1], p[2] - ortho_left[2]>>
    IN  [i \in 1..(Len(points) - 1) |-> Right(points[i], OrthoAt(points, i, road_width))]

RightOffsets(points, road_width) ==
    LET Right(p, ortho_left) == <<p[1] - ortho_left[1], p[2] - ortho_left[2]>>
    IN  [i \in 1..Len(points) |-> Right(points[i], OrthoAt(points, i, road_width))]

\* lanelet1 of Primitive.export when it returns
Primitive_export_lanelet1(p, points, cfg) ==
    [Filled(lanelet(1),
        points,
        convert_line_marking(IF HasAttr(p, "middle_line") THEN p.middle_line ELSE "None"),
        RightOffsets(points, cfg.road_width),
        convert_line_marking(IF HasAttr(p, "right_line") THEN p.right_line ELSE "None"))
     EXCEPT !.isStart = HasAttr(p, "is_start") /\ p.is_start]

\* lanelet2 with only its left boundary reversed
Primitive_export_lanelet2_rightKept(p, points, cfg) ==
    Filled(lanelet(2),
        Reverse(points),
        "None",
        LeftOffsets(points, cfg.road_width),
        convert_line_marking(IF HasAttr(p, "left_line") THEN p.left_line ELSE "None"))

\* lanelet2 with neither boundary reversed
Primitive_export_lanelet2_unreversed(p, points, cfg) ==
    Filled(lanelet(2),
        points,
        "None",
        LeftOffsets(points, cfg.road_width),
        convert_line_marking(IF HasAttr(p, "left_line") THEN p.left_line ELSE "None"))

\* lanelet2 of Primitive.export when it returns: its boundaries are reversed to
\* match the driving direction
Primitive_export_lanelet2(p, points, cfg) ==
    Filled(lanelet(2),
        Reverse(points),
        "None",
        Reverse(LeftOffsets(points, cfg.road_width)),
        convert_line_marking(IF HasAttr(p, "left_line") THEN p.left_line ELSE "None"))

\* Primitive.export returning Export([lanelet1], [(lanelet1, lanelet2)])
Primitive_export_unlisted(p, points, cfg) ==
    IF Len(points) = 1 THEN Raise("UnboundLocalError")
    ELSE Ok(Export(<<Primitive_export_lanelet1(p, points, cfg)>>, << <<1, 2>> >>))

\* Primitive.export returning Export([lanelet1, lanelet2], [(lanelet2, lanelet1)])
Primitive_export_swapped(p, points, cfg) ==
    IF Len(points) = 1 THEN Raise("UnboundLocalError")
    ELSE LET Bundle(lanelet1, lanelet2) ==
                Ok(Export(<<lanelet1, lanelet2>>, << <<lanelet2.id, lanelet1.id>> >>))
         IN  Bundle(Primitive_export_lanelet1(p, points, cfg),
                    Primitive_export_lanelet2(p, points, cfg))

\* Primitive.export: a single sample leaves ortho_left unbound in the loop's else
\* branch
Primitive_export(p, points, cfg) ==
    IF Len(points) = 1 THEN Raise("UnboundLocalError")
    ELSE LET Bundle(lanelet1, lanelet2) ==
                Ok(Export(<<lanelet1, lanelet2>>, << <<lanelet1.id, lanelet2.id>> >>))
         IN  Bundle(Primitive_export_lanelet1(p, points, cfg),
                    Primitive_export_lanelet2(p, points, cfg))

----------------------------------------------------------------------------
(* export of the decorated straights *)

\* an append that also lists an appended lanelet as a pair with itself
Appended_paired(export, o) ==
    IF ~export.ok THEN export
    ELSE Ok([AppendObject(export.val, o) EXCEPT
                !.lanelet_pairs = IF o.cls = "lanelet" THEN Append(@, <<o.id, o.id>>) ELSE @])

\* export.objects.append(o) on the bundle a call returned
Appended(export, o) == IF ~export.ok THEN export ELSE Ok(AppendObject(export.val, o))

StraightLineObstacle_export(p, cfg) ==
    LET y0 == Mul(p.position, cfg.road_width)
        y == IF p.anchor = "left" THEN y0 - RDiv(p.width, 2)
             ELSE IF p.anchor = "right" THEN y0 + RDiv(p.width, 2)
             ELSE y0
        rect == rectangle(p.length, p.width, 0, <<RDiv(p.length, 2), y>>)
        obst == obstacle(3, "static", "parkedVehicle", rect)
    IN  Appended(Primitive_export(p, << <<0, 0>>, <<p.length, 0>> >>, cfg), obst)

\* the parking lane of ParkingObstacle.export and ParkingLot.export
ParkingLane(id, p, cfg) ==
    Filled(lanelet(id),
        << <<0, -cfg.road_width>>, <<p.length, -cfg.road_width>> >>, "None",
        << <<0, -cfg.road_width - Float(3, 10)>>,
           <<p.length, -cfg.road_width - Float(3, 10)>> >>, "solid")

ParkingObstacle_export(p, cfg) ==
    LET y == -cfg.road_width - Float(3, 10) + RDiv(p.width, 2)
        rect == rectangle(p.length, p.width, 0, <<RDiv(p.length, 2), y>>)
        obst == obstacle(3, "static", "parkedVehicle", rect)
        parking_lane == ParkingLane(4, p, cfg)
    IN  Appended(
            Appended(Primitive_export(p, << <<0, 0>>, <<p.length, 0>> >>, cfg), obst),
            parking_lane)

ParkingLot_export(p, cfg) ==
    Appended(Primitive_export(p, << <<0, 0>>, <<p.length, 0>> >>, cfg),
             ParkingLane(3, p, cfg))

BlockedAreaObstacle_export(p, cfg) ==
    LET rect == rectangle(p.length, p.obst_width, 0,
                          <<RDiv(p.length, 2), -cfg.road_width + RDiv(p.obst_width, 2)>>)
        obst == obstacle(3, "static", "blockedArea", rect)
    IN  Appended(Primitive_export(p, << <<0, 0>>, <<p.length, 0>> >>, cfg), obst)

ZebraCrossing_export(p, cfg) ==
    LET zebra == [Filled(lanelet(3),
                     << <<0, -cfg.road_width>>, <<0, cfg.road_width>> >>, "None",
                     << <<p.length, -cfg.road_width>>, <<p.length, cfg.road_width>> >>,
                     "None")
                  EXCEPT !.type = "zebraCrossing"]
    IN  Appended(Primitive_export(p, << <<0, 0>>, <<p.length, 0>> >>, cfg), zebra)

\* the values of schema.roadMarkingType the code names
RoadMarkingTypes == {"turn_left", "turn_right"}

TrafficSign_export(p, cfg) ==
    LET traffic_sign ==
            IF p.on_opposite_side
            THEN trafficSign(3, p.traffic_sign, 0,
                             <<RDiv(p.length, 2), cfg.road_width + Float(15, 100)>>)
            ELSE trafficSign(3, p.traffic_sign, Pi,
                             <<RDiv(p.length, 2), -cfg.road_width - Float(15, 100)>>)
        road_marking == roadMarking(4, p.traffic_sign, -HalfPi,
                                    <<RDiv(p.length, 2), RDiv(-cfg.road_width, 2)>>)
        Marked(export) ==
            IF p.traffic_sign \in RoadMarkingTypes THEN Appended(export, road_marking)
            ELSE export
    IN  Marked(Appended(Primitive_export(p, << <<0, 0>>, <<p.length, 0>> >>, cfg),
                        traffic_sign))

Ramp_export(p, cfg) ==
    LET r == ramp(3, Pi, <<p.signDistance + p.padding, 0>>)
        s1 == trafficSign(4, "stvo-110-10", Pi,
                          <<p.padding, -cfg.road_width - Float(1, 10)>>)
        s2 == trafficSign(5, "stvo-108-10", Pi,
                          <<p.length - p.padding, -cfg.road_width - Float(1, 10)>>)
        s3 == trafficSign(6, "stvo-108-10", 0,
                          <<p.padding, cfg.road_width + Float(1, 10)>>)
        s4 == trafficSign(7, "stvo-110-10", 0,
                          <<p.length - p.padding, cfg.road_width + Float(1, 10)>>)
    IN  Appended(Appended(Appended(Appended(Appended(
            Primitive_export(p, << <<0, 0>>, <<p.length, 0>> >>, cfg), r), s1), s2), s3), s4)

----------------------------------------------------------------------------
(* TransrotPrimitive.export: the child's bundle, transformed in place *)

\* the matrix applied n times to a point
RECURSIVE ApplyTimes(_, _, _)
ApplyTimes(m, point, n) ==
    IF n = 0 THEN point ELSE ApplyTimes(m, Apply(m, point), n - 1)

\* the loop over range(len(points) - 1): the last cell is left as it was
TransformCells_short(heap, addrs, m) ==
    LET indices == 1..(Len(addrs) - 1)
        cells == {addrs[i] : i \in indices}
        Times(a) == IF Cardinality(cells) = Cardinality(indices) THEN 1
                    ELSE Cardinality({i \in indices : addrs[i] = a})
    IN  [a \in DOMAIN heap |->
            IF a \in cells THEN ApplyTimes(m, heap[a], Times(a)) ELSE heap[a]]

\* `for i in range(len(points)): points[i].x, points[i].y = transformed`: each cell
\* is read and overwritten when its index is reached, so the loop transforms a
\* cell once for every index of `points` that refers to it
TransformCells(heap, addrs, m) ==
    LET indices == 1..Len(addrs)
        cells == {addrs[i] : i \in indices}
        \* the number of indices that refer to cell a: 1 when no two indices refer
        \* to the same cell
        Times(a) == IF Cardinality(cells) = Cardinality(indices) THEN 1
                    ELSE Cardinality({i \in indices : addrs[i] = a})
    IN  [a \in DOMAIN heap |->
            IF a \in cells THEN ApplyTimes(m, heap[a], Times(a)) ELSE heap[a]]

\* one iteration of `for obj in objects`: the bundle after obj is handled
TransformObject(b, k, m, angle) ==
    LET obj == b.objects[k]
    IN  CASE obj.cls = "lanelet" ->
              \* the loop over the left boundary's points, then the right's
              [b EXCEPT !.heap = TransformCells(
                                    @, obj.leftBoundary.point \o obj.rightBoundary.point, m)]
          [] obj.cls = "obstacle" ->
              LET rects == obj.shape.rectangle
              IN  [b EXCEPT !.objects[k].shape.rectangle =
                      [j \in 1..Len(rects) |->
                          [rects[j] EXCEPT !.orientation = @ - angle,
                                           !.centerPoint = Apply(m, @)]]]
          [] obj.cls = "trafficSign" ->
              [b EXCEPT !.objects[k].orientation = @ + angle,
                        !.objects[k].centerPoint = Apply(m, @)]
          [] obj.cls = "ramp" ->
              [b EXCEPT !.objects[k].orientation = @ + angle,
                        !.objects[k].centerPoint = Apply(m, @)]
          [] obj.cls = "trafficIslandJunction" ->
              [b EXCEPT !.heap = TransformCells(@, obj.point, m)]
          [] obj.cls = "roadMarking" ->
              [b EXCEPT !.objects[k].orientation = @ + angle,
                        !.objects[k].centerPoint = Apply(m, @)]
          [] OTHER -> b

RECURSIVE TransformObjects(_, _, _, _)
TransformObjects(b, k, m, angle) ==
    IF k > Len(b.objects) THEN b
    ELSE TransformObjects(TransformObject(b, k, m, angle), k + 1, m, angle)

\* whether the loop over the child's objects transforms any point at all
HasCoordinates(b) ==
    \E k \in 1..Len(b.objects) :
        LET obj == b.objects[k]
        IN  CASE obj.cls = "lanelet" ->
                    Len(obj.leftBoundary.point) + Len(obj.rightBoundary.point) > 0
              [] obj.cls = "obstacle" -> Len(obj.shape.rectangle) > 0
              [] obj.cls = "trafficIslandJunction" -> Len(obj.point) > 0
              [] OTHER -> TRUE

TransrotPrimitive_export(p, childExport) ==
    LET \* the loop, given what _get_matrix() returns or raises
        Transformed(m) == IF ~m.ok THEN m
                          ELSE Ok(TransformObjects(childExport.val, 1, m.val, p.angle))
    IN  IF ~childExport.ok THEN childExport
        ELSE IF ~HasCoordinates(childExport.val) THEN childExport
        ELSE Transformed(_get_matrix(p))

----------------------------------------------------------------------------
(* Intersection.export *)

\* the points appended by `for angle in np.arange(start, stop, step)`:
\* centre + cos(angle) * road_width * factor (factor 0: the corner point itself)
ArcPoints(start, stop, step, centre, road_width, factor) ==
    LET angles == ARange(start, stop, step)
    IN  [k \in 1..Len(angles) |->
            <<centre[1] + Mul(Cos(angles[k]), road_width) * factor,
              centre[2] + Mul(Sin(angles[k]), road_width) * factor>>]

SignTypeMap(rule) ==
    CASE rule = "priority-yield" -> "stvo-306"
      [] rule = "priority-stop" -> "stvo-306"
      [] rule = "yield" -> "stvo-205"
      [] rule = "stop" -> "stvo-206"

SignTypeMapOpposite(rule) ==
    CASE rule = "priority-yield" -> "stvo-206"
      [] rule = "priority-stop" -> "stvo-306"
      [] rule = "yield" -> "stvo-306"
      [] rule = "stop" -> "stvo-306"

SignTypeMapKeys == {"priority-yield", "priority-stop", "yield", "stop"}

\* the four signs of a rule, a rule outside the lookup read as "priority-stop"
RuleSigns_defaulted(rule, w) ==
    LET Signs(known) ==
            << trafficSign(15, SignTypeMap(known), RDiv(3 * Pi, 2),
                           <<w + Float(1, 10), -w - Float(5, 10)>>),
               trafficSign(16, SignTypeMap(known), HalfPi,
                           <<-w - Float(1, 10), w + Float(5, 10)>>),
               trafficSign(17, SignTypeMapOpposite(known), 0,
                           <<w + Float(5, 10), w + Float(1, 10)>>),
               trafficSign(18, SignTypeMapOpposite(known), Pi,
                           <<-w - Float(5, 10), -w - Float(1, 10)>>) >>
    IN  Signs(IF rule \in SignTypeMapKeys THEN rule ELSE "priority-stop")

\* `if self._rule in type_map:` twice: the two signs of the rule on the road
\* driven and the two signs of the crossing road, or none
RuleSigns(rule, w) ==
    IF rule \in SignTypeMapKeys
    THEN << trafficSign(15, SignTypeMap(rule), RDiv(3 * Pi, 2),
                        <<w + Float(1, 10), -w - Float(5, 10)>>),
            trafficSign(16, SignTypeMap(rule), HalfPi,
                        <<-w - Float(1, 10), w + Float(5, 10)>>),
            trafficSign(17, SignTypeMapOpposite(rule), 0,
                        <<w + Float(5, 10), w + Float(1, 10)>>),
            trafficSign(18, SignTypeMapOpposite(rule), Pi,
                        <<-w - Float(5, 10), -w - Float(1, 10)>>) >>
    ELSE <<>>

\* the pair of the leg opposite to the one the turn leaves by
ExitLegPair_opposite(target_dir, north, east, west) ==
    CASE target_dir = "left" -> east
      [] target_dir = "right" -> west
      [] target_dir = "straight" -> north

\* the pair of approach-leg lanelets appended last to `pairs`: the leg the turn
\* leaves the intersection by
ExitLegPair(target_dir, north, east, west) ==
    CASE target_dir = "left" -> west
      [] target_dir = "right" -> east
      [] target_dir = "straight" -> north

Intersection_export(p, cfg) ==
    LET w == cfg.road_width
        sz == p.size
        step == RDiv(Pi, 20)
        \* stop lines by rule
        stopNS == IF p.rule = "equal" THEN "dashed"
                  ELSE IF p.rule = "priority-yield" /\ p.target_dir = "straight" THEN "None"
                  ELSE IF p.rule = "priority-stop" /\ p.target_dir = "straight" THEN "None"
                  ELSE IF p.rule = "yield" THEN "dashed"
                  ELSE IF p.rule = "stop" THEN "solid"
                  ELSE "None"
        stopEW == IF p.rule = "equal" THEN "dashed"
                  ELSE IF p.rule = "priority-yield" /\ p.target_dir = "straight" THEN "dashed"
                  ELSE IF p.rule = "priority-stop" /\ p.target_dir = "straight" THEN "solid"
                  ELSE "None"
        southRight == [Filled(lanelet(1),
                           << <<0, -sz>>, <<0, -w>> >>, "dashed",
                           << <<w, -sz>>, <<w, -w>> >>, "solid")
                       EXCEPT !.stopLine = stopNS]
        southLeft == Filled(lanelet(2),
                           << <<0, -w>>, <<0, -sz>> >>, "None",
                           << <<-w, -w>>, <<-w, -sz>> >>, "solid")
        northRight == [Filled(lanelet(3),
                           << <<0, sz>>, <<0, w>> >>, "dashed",
                           << <<-w, sz>>, <<-w, w>> >>, "solid")
                       EXCEPT !.stopLine = stopNS]
        northLeft == Filled(lanelet(4),
                           << <<0, w>>, <<0, sz>> >>, "None",
                           << <<w, w>>, <<w, sz>> >>, "solid")
        eastRight == [Filled(lanelet(5),
                           << <<sz, 0>>, <<w, 0>> >>, "None",
                           << <<sz, w>>, <<w, w>> >>, "solid")
                      EXCEPT !.stopLine = stopEW]
        eastLeft == Filled(lanelet(6),
                           << <<w, 0>>, <<sz, 0>> >>, "dashed",
                           << <<w, -w>>, <<sz, -w>> >>, "solid")
        westRight == [Filled(lanelet(7),
                           << <<-sz, 0>>, <<-w, 0>> >>, "None",
                           << <<-sz, -w>>, <<-w, -w>> >>, "solid")
                      EXCEPT !.stopLine = stopEW]
        westLeft == Filled(lanelet(8),
                           << <<-w, 0>>, <<-sz, 0>> >>, "dashed",
                           << <<-w, w>>, <<-sz, w>> >>, "solid")
        result0 == <<southRight, southLeft, northLeft, northRight,
                     eastLeft, eastRight, westLeft, westRight>>
        pairs0 == << <<southRight.id, southLeft.id>> >>
        \* target_dir = "left"
        leftRight == Filled(lanelet(9),
                        ArcPoints(0, HalfPi, step, <<-w, -w>>, w, 1), "dashed",
                        ArcPoints(0, HalfPi, step, <<-w, -w>>, w, 2), "dashed")
        leftLeft == Filled(lanelet(10),
                        ArcPoints(HalfPi, 0, -step, <<-w, -w>>, w, 1), "None",
                        ArcPoints(HalfPi, 0, -step, <<-w, -w>>, w, 0), "None")
        leftSigns ==
            << trafficSign(11, "stvo-209-10", RDiv(3 * Pi, 2),
                           <<w + Float(1, 10), -w - Float(25, 100)>>),
               roadMarking(12, "turn_right", Pi,
                           <<RDiv(w + cfg.turn_road_marking_width, 2), -w - Float(25, 100)>>) >>
            \o (IF p.rule # "yield"
                THEN << roadMarking(13, "turn_left", HalfPi,
                            <<-w - Float(25, 100),
                              -RDiv(w + cfg.turn_road_marking_width, 2)>>),
                        trafficSign(14, "stvo-209-20", Pi,
                            <<-w - Float(25, 100), -w - Float(1, 10)>>) >>
                ELSE <<>>)
        \* target_dir = "right"
        rightRight == Filled(lanelet(9),
                        ArcPoints(Pi, HalfPi, -step, <<w, -w>>, w, 1), "dashed",
                        ArcPoints(Pi, HalfPi, -step, <<w, -w>>, w, 0), "None")
        rightLeft == Filled(lanelet(10),
                        ArcPoints(HalfPi, Pi, step, <<w, -w>>, w, 1), "None",
                        ArcPoints(HalfPi, Pi, step, <<w, -w>>, w, 2), "dashed")
        rightSigns ==
            << trafficSign(11, "stvo-209-20", RDiv(3 * Pi, 2),
                           <<w + Float(1, 10), -w - Float(25, 100)>>),
               roadMarking(12, "turn_left", Pi,
                           <<RDiv(w + cfg.turn_road_marking_width, 2), -w - Float(25, 100)>>) >>
            \o (IF p.rule # "yield"
                THEN << roadMarking(13, "turn_right", RDiv(3 * Pi, 2),
                            <<w + Float(25, 100),
                              RDiv(w + cfg.turn_road_marking_width, 2)>>),
                        trafficSign(14, "stvo-209-10", 0,
                            <<w + Float(25, 100), w + Float(1, 10)>>) >>
                ELSE <<>>)
        \* target_dir = "straight"
        straightRight == Filled(lanelet(9),
                        << <<0, -w>>, <<0, w>> >>, "None",
                        << <<w, -w>>, <<w, w>> >>, "None")
        straightLeft == Filled(lanelet(10),
                        << <<0, w>>, <<0, -w>> >>, "None",
                        << <<-w, w>>, <<-w, -w>> >>, "None")
        result1 ==
            CASE p.target_dir = "left" -> result0 \o <<leftRight, leftLeft>> \o leftSigns
              [] p.target_dir = "right" -> result0 \o <<rightRight, rightLeft>> \o rightSigns
              [] p.target_dir = "straight" -> result0 \o <<straightRight, straightLeft>>
              [] OTHER -> result0
        exitPair ==
            ExitLegPair(p.target_dir, <<northLeft.id, northRight.id>>,
                        <<eastLeft.id, eastRight.id>>, <<westLeft.id, westRight.id>>)
        pairs ==
            CASE p.target_dir = "left" ->
                    pairs0 \o << <<leftRight.id, leftLeft.id>>, exitPair >>
              [] p.target_dir = "right" ->
                    pairs0 \o << <<rightRight.id, rightLeft.id>>, exitPair >>
              [] p.target_dir = "straight" ->
                    pairs0 \o << <<straightRight.id, straightLeft.id>>, exitPair >>
              [] OTHER -> pairs0
    IN  Ok(Export(result1 \o RuleSigns(p.rule, w), pairs))

----------------------------------------------------------------------------
(* TrafficIsland.export *)

VAdd(u, v) == <<u[1] + v[1], u[2] + v[2]>>

VSub(u, v) == <<u[1] - v[1], u[2] - v[2]>>

\* vector * scalar
VScale(v, k) == <<Mul(v[1], k), Mul(v[2], k)>>

\* np.dot(A, p)
Dot(A, p) == Mul(A[1], p[1]) + Mul(A[2], p[2])

\* the points add_quad_bezier_points appends
add_quad_bezier_points(t_step, p0, p1, p2, p3) ==
    LET ts == TSamples(t_step)
    IN  [k \in 1..Len(ts) |-> _compute_cubic_bezier(ts[k], p0, p1, p2, p3)]

quad_bezier_line_function(t, p0, p1, p2, p3, A, d) ==
    LET u == Unit - t
    IN  Mul(Mul(Mul(u, u), u), Dot(A, p0)) + Mul(3 * Mul(Mul(u, u), t), Dot(A, p1))
        + Mul(3 * Mul(u, Mul(t, t)), Dot(A, p2)) + Mul(Mul(Mul(t, t), t), Dot(A, p3)) - d

\* bisection between a and b, where the function has opposite signs
RECURSIVE Bisect(_, _, _, _, _)
Bisect(c, A, d, a, b) ==
    LET F(t) == quad_bezier_line_function(t, c[1], c[2], c[3], c[4], A, d)
        mid == (a + b) \div 2
        Halved(fa, fm) ==
            IF fm = 0 THEN mid
            ELSE IF Sign(fm) = Sign(fa) THEN Bisect(c, A, d, mid, b)
            ELSE Bisect(c, A, d, a, mid)
    IN  IF b - a <= 1 THEN (IF Abs(F(a)) <= Abs(F(b)) THEN a ELSE b)
        ELSE Halved(F(a), F(mid))

\* root_scalar(partial(quad_bezier_line_function, ...), bracket=[0, 1],
\* method='brentq').root for the curve c = <<p0, p1, p2, p3>>: a ValueError when the
\* function has the same sign at both ends of the bracket
root_scalar(c, A, d) ==
    LET F(t) == quad_bezier_line_function(t, c[1], c[2], c[3], c[4], A, d)
        Root(f0, f1) ==
            IF Sign(f0) * Sign(f1) > 0 THEN Raise("ValueError")
            ELSE IF f0 = 0 THEN Ok(0)
            ELSE IF f1 = 0 THEN Ok(Unit)
            ELSE Ok(Bisect(c, A, d, 0, Unit))
    IN  Root(F(0), F(Unit))

\* `for y in np.arange(...)`: the root-finding call is outside any try block
RECURSIVE JunctionRows(_, _, _, _, _, _)
JunctionRows(acc, left_center, A, x0, ys, i) ==
    IF i > Len(ys) THEN Ok(acc)
    ELSE LET y == ys[i]
             Row(sol) ==
                IF ~sol.ok THEN sol
                ELSE JunctionRows(
                        acc \o << <<x0, y>>,
                                  _compute_cubic_bezier(sol.val, left_center[1],
                                      left_center[2], left_center[3], left_center[4]) >>,
                        left_center, A, x0, ys, i + 1)
         IN  Row(root_scalar(left_center, A, Mul(x0, A[1]) + Mul(y, A[2])))

\* `for x in np.arange(...)`: the call for the right curve is inside try/except
\* ValueError: continue, the call for the left curve is not
RECURSIVE JunctionCols(_, _, _, _, _, _, _)
JunctionCols(acc, right_center, left_center, A, y, xs, i) ==
    IF i > Len(xs) THEN Ok(acc)
    ELSE LET x == xs[i]
             Col(acc1) == JunctionCols(acc1, right_center, left_center, A, y, xs, i + 1)
             Pair(sol_right, sol_left) ==
                IF ~sol_right.ok THEN Col(acc)
                ELSE IF ~sol_left.ok THEN sol_left
                ELSE Col(acc \o << _compute_cubic_bezier(sol_right.val, right_center[1],
                                       right_center[2], right_center[3], right_center[4]),
                                   _compute_cubic_bezier(sol_left.val, left_center[1],
                                       left_center[2], left_center[3], left_center[4]) >>)
             Sols(d) == Pair(root_scalar(right_center, A, d), root_scalar(left_center, A, d))
         IN  Sols(Mul(x, A[1]) + Mul(y, A[2]))

\* the junction points the two loops of one section append, or the exception
JunctionPoints(right_center, left_center, A, corner_right, corner_left, x_stop, x_step) ==
    LET tan27 == Div(Sin(Radians(27)), Cos(Radians(27)))
        Cols(rows) ==
            IF ~rows.ok THEN rows
            ELSE JunctionCols(rows.val, right_center, left_center, A, corner_right[2],
                              ARange(corner_right[1], x_stop, x_step), 1)
    IN  Cols(JunctionRows(<<>>, left_center, A, corner_right[1],
                          ARange(corner_right[2], corner_left[2],
                                 Mul(Float(15, 100), tan27)),
                          1))

\* the lanelet_pairs of TrafficIsland.export: (right, left) of each section
TrafficIsland_pairs(lanelets) ==
    << <<lanelets[1].id, lanelets[2].id>>, <<lanelets[3].id, lanelets[4].id>>,
       <<lanelets[5].id, lanelets[6].id>>, <<lanelets[7].id, lanelets[8].id>>,
       <<lanelets[9].id, lanelets[10].id>> >>

TrafficIsland_export(p, cfg) ==
    LET w == cfg.road_width
        pd == p.principal_direction
        od == p.orthogonal_direction
        points == << <<0, 0>>, <<p.length, 0>> >>
        zebra == p.zebraMarkingType = "zebra"
        lines == p.zebraMarkingType = "lines"
        \* straight padding lines
        starting_point == points[1]
        right_starting_point == VSub(starting_point, VScale(od, w))
        left_starting_point == VAdd(starting_point, VScale(od, w))
        split_starting_point == VAdd(starting_point, VScale(pd, p.padding))
        right_split_starting == VSub(split_starting_point, VScale(od, w))
        left_split_starting == VAdd(split_starting_point, VScale(od, w))
        padding_right ==
            Filled(lanelet(1),
                <<points[1], split_starting_point>>, "dashed",
                <<right_starting_point, right_split_starting>>, "solid")
        padding_left ==
            Filled(lanelet(2),
                Reverse(<<points[1], split_starting_point>>), "dashed",
                Reverse(<<left_starting_point, left_split_starting>>), "solid")
        \* cubic beziers connecting to zebra section
        zebra_area == VAdd(split_starting_point, VScale(pd, p.curve_area_length))
        half_island == VScale(VScale(od, p.islandWidth), Float(5, 10))
        outer_island == VScale(od, Mul(p.islandWidth, Float(5, 10)) + w)
        zebra_start_right_center == VSub(zebra_area, half_island)
        zebra_start_right_outer == VSub(zebra_area, outer_island)
        zebra_start_left_center == VAdd(zebra_area, half_island)
        zebra_start_left_outer == VAdd(zebra_area, outer_island)
        t_step == Float(1, 100)
        off1 == VScale(pd, Float(2, 10))
        s_right_center == <<split_starting_point, VAdd(split_starting_point, off1),
                            VSub(zebra_start_right_center, off1), zebra_start_right_center>>
        s_right_outer == <<right_split_starting, VAdd(right_split_starting, off1),
                           VSub(zebra_start_right_outer, off1), zebra_start_right_outer>>
        s_left_center == <<split_starting_point, VAdd(split_starting_point, off1),
                           VSub(zebra_start_left_center, off1), zebra_start_left_center>>
        s_left_outer == <<left_split_starting, VAdd(left_split_starting, off1),
                          VSub(zebra_start_left_outer, off1), zebra_start_left_outer>>
        Curve(c) == add_quad_bezier_points(t_step, c[1], c[2], c[3], c[4])
        \* zebra
        zebra_end_right_center == VAdd(zebra_start_right_center, VScale(pd, p.zebraLength))
        zebra_end_right_outer == VAdd(zebra_start_right_outer, VScale(pd, p.zebraLength))
        zebra_end_left_center == VAdd(zebra_start_left_center, VScale(pd, p.zebraLength))
        zebra_end_left_outer == VAdd(zebra_start_left_outer, VScale(pd, p.zebraLength))
        stopLineAttributes == <<Float(2, 100), Float(4, 100), Float(4, 100)>>
        split_right ==
            [Filled(lanelet(3),
                <<split_starting_point>> \o Curve(s_right_center)
                    \o (IF zebra THEN <<zebra_end_right_center>> ELSE <<>>), "solid",
                <<right_split_starting>> \o Curve(s_right_outer)
                    \o (IF zebra THEN <<zebra_end_right_outer>> ELSE <<>>), "solid")
             EXCEPT !.stopLine = IF lines THEN "dashed" ELSE "None",
                    !.stopLineAttributes = IF lines THEN stopLineAttributes ELSE <<>>]
        split_left ==
            Filled(lanelet(4),
                Reverse(<<split_starting_point>> \o Curve(s_left_center)
                    \o (IF zebra THEN <<zebra_end_left_center>> ELSE <<>>)), "solid",
                Reverse(<<left_split_starting>> \o Curve(s_left_outer)
                    \o (IF zebra THEN <<zebra_end_left_outer>> ELSE <<>>)), "solid")
        \* the lanelets that copy split_right.stopLineAttributes take split_right
        crossing_right(split_right_lanelet) ==
            IF zebra
            THEN [Filled(lanelet(5),
                     <<zebra_start_right_center, zebra_start_right_outer>>, "None",
                     <<zebra_end_right_center, zebra_end_right_outer>>, "None")
                  EXCEPT !.type = "zebraCrossing"]
            ELSE IF lines
            THEN [Filled(lanelet(5),
                     <<zebra_start_right_center, zebra_end_right_center>>, "solid",
                     <<zebra_start_right_outer, zebra_end_right_outer>>, "solid")
                  EXCEPT !.stopLine = "dashed",
                         !.stopLineAttributes = split_right_lanelet.stopLineAttributes]
            ELSE lanelet(5)
        crossing_left(split_right_lanelet) ==
            IF zebra
            THEN [Filled(lanelet(6),
                     <<zebra_start_left_center, zebra_start_left_outer>>, "None",
                     <<zebra_end_left_center, zebra_end_left_outer>>, "None")
                  EXCEPT !.type = "zebraCrossing"]
            ELSE IF lines
            THEN [Filled(lanelet(6),
                     Reverse(<<zebra_start_left_center, zebra_end_left_center>>), "solid",
                     Reverse(<<zebra_start_left_outer, zebra_end_left_outer>>), "solid")
                  EXCEPT !.stopLine = "dashed",
                         !.stopLineAttributes = split_right_lanelet.stopLineAttributes]
            ELSE lanelet(6)
        \* quad beziers merging at the back
        merge_center == VAdd(split_starting_point,
                             VScale(pd, p.curve_area_length * 2 + p.zebraLength))
        merge_outer_right == VSub(merge_center, VScale(od, w))
        merge_outer_left == VAdd(merge_center, VScale(od, w))
        off2 == VScale(pd, Float(4, 10))
        m_right_center == <<zebra_end_right_center, VAdd(zebra_end_right_center, off2),
                            VSub(merge_center, off2), merge_center>>
        m_right_outer == <<zebra_end_right_outer, VAdd(zebra_end_right_outer, off2),
                           VSub(merge_outer_right, off2), merge_outer_right>>
        m_left_center == <<zebra_end_left_center, VAdd(zebra_end_left_center, off2),
                           VSub(merge_center, off2), merge_center>>
        m_left_outer == <<zebra_end_left_outer, VAdd(zebra_end_left_outer, off2),
                          VSub(merge_outer_left, off2), merge_outer_left>>
        merge_right ==
            Filled(lanelet(7),
                <<zebra_end_right_center>> \o Curve(m_right_center), "solid",
                <<zebra_end_right_outer>> \o Curve(m_right_outer), "solid")
        merge_left(split_right_lanelet) ==
            [Filled(lanelet(8),
                Reverse(<<zebra_end_left_center>> \o Curve(m_left_center)), "solid",
                Reverse(<<zebra_end_left_outer>> \o Curve(m_left_outer)), "solid")
             EXCEPT !.stopLine = IF lines THEN "dashed" ELSE "None",
                    !.stopLineAttributes =
                        IF lines THEN split_right_lanelet.stopLineAttributes ELSE <<>>]
        \* end straight padding lines
        end_center == VAdd(merge_center, VScale(pd, p.padding))
        end_right == VSub(end_center, VScale(od, w))
        end_left == VAdd(end_center, VScale(od, w))
        end_padding_right ==
            Filled(lanelet(9),
                <<merge_center, end_center>>, "dashed",
                <<merge_outer_right, end_right>>, "solid")
        end_padding_left ==
            Filled(lanelet(10),
                <<merge_center, end_center>>, "dashed",
                <<merge_outer_left, end_left>>, "solid")
        \* the junction polygons: both sections append to starting_junction
        A_split == <<Sin(Radians(27)), Cos(Radians(27))>>
        A_merge == <<-Sin(Radians(27)), Cos(Radians(27))>>
        merging_junction ==
            trafficIslandJunction(14, <<zebra_end_right_center, zebra_end_left_center>>)
        sign1 == trafficSign(11, "stvo-222", -HalfPi, <<p.padding + p.signDistance, 0>>)
        sign2 == trafficSign(12, "stvo-222", HalfPi,
                             <<p.length - p.padding - p.signDistance, 0>>)
        \* the return statement, given the lanelets and the points the split and
        \* the merge section appended to starting_junction (or the exception)
        Bundle(lanelets, split_points, merge_points) ==
            IF ~split_points.ok THEN split_points
            ELSE IF ~merge_points.ok THEN merge_points
            ELSE Ok(Export(
                    lanelets \o
                    <<sign1, sign2,
                      trafficIslandJunction(13,
                          <<zebra_start_right_center, zebra_start_left_center>>
                              \o split_points.val \o merge_points.val),
                      merging_junction>>,
                    TrafficIsland_pairs(lanelets)))
        Lanelets(split_right_lanelet) ==
            <<padding_right, padding_left, split_right_lanelet, split_left,
              crossing_right(split_right_lanelet), crossing_left(split_right_lanelet),
              merge_right, merge_left(split_right_lanelet), end_padding_right,
              end_padding_left>>
    IN  Bundle(Lanelets(split_right),
               JunctionPoints(s_right_center, s_left_center, A_split,
                              zebra_start_right_center, zebra_start_left_center,
                              split_starting_point[1], -Float(15, 100)),
               JunctionPoints(m_right_center, m_left_center, A_merge,
                              zebra_end_right_center, zebra_end_left_center,
                              merge_center[1], Float(15, 100)))

----------------------------------------------------------------------------
(* export, dispatched on the class *)

RECURSIVE export(_, _)
export(p, cfg) ==
    CASE p.kind \in {"StraightLine", "LeftCircularArc", "RightCircularArc", "QuadBezier",
                     "CubicBezier", "Clothoid"} ->
            Primitive_export(p, get_points(p).val, cfg)
      [] p.kind = "StraightLineObstacle" -> StraightLineObstacle_export(p, cfg)
      [] p.kind = "ParkingObstacle" -> ParkingObstacle_export(p, cfg)
      [] p.kind = "ParkingLot" -> ParkingLot_export(p, cfg)
      [] p.kind = "BlockedAreaObstacle" -> BlockedAreaObstacle_export(p, cfg)
      [] p.kind = "ZebraCrossing" -> ZebraCrossing_export(p, cfg)
      [] p.kind = "TrafficSign" -> TrafficSign_export(p, cfg)
      [] p.kind = "Ramp" -> Ramp_export(p, cfg)
      [] p.kind = "Intersection" -> Intersection_export(p, cfg)
      [] p.kind = "TrafficIsland" -> TrafficIsland_export(p, cfg)
      [] p.kind = "TransrotPrimitive" -> TransrotPrimitive_export(p, export(p.child, cfg))

----------------------------------------------------------------------------
(* The primitives and road configurations the model constructs *)

\* nesting depth of TransrotPrimitive wrappers allowed
MaxDepth == 1

\* number of export calls recorded on one primitive
MaxExports == 2

LineArgs ==
    { [length |-> 5 * Unit],
      [length |-> 2 * Unit, leftLine |-> "missing", middleLine |-> "solid",
       rightLine |-> "dashed"],
      [length |-> 5 * Unit, isStart |-> TRUE] }

ArcArgs == { [radius |-> 100 * Unit, angle |-> 3],
             [radius |-> 60 * Unit, angle |-> 2, middleLine |-> "missing"] }

QuadBezierArgs ==
    { [p1x |-> 10 * Unit, p1y |-> 0, p2x |-> 10 * Unit, p2y |-> 10 * Unit],
      \* control points on one line: a straight run of samples
      [p1x |-> 5 * Unit, p1y |-> 0, p2x |-> 10 * Unit, p2y |-> 0] }

CubicBezierArgs ==
    { [p1x |-> 5 * Unit, p1y |-> 0, p2x |-> 10 * Unit, p2y |-> -5 * Unit,
       p3x |-> 15 * Unit, p3y |-> -5 * Unit, leftLine |-> "dashed"] }

Turns == {"left", "right", "straight"}

\* the five rules of the presets and a value that is none of them
Rules == {"equal", "priority-yield", "priority-stop", "yield", "stop", "roundabout"}

IslandArgs ==
    { [islandWidth |-> Float(4, 10), zebraLength |-> Float(5, 10),
       signDistance |-> Float(1, 10), zebraMarkingType |-> "zebra"],
      [islandWidth |-> Float(3, 10), zebraLength |-> Float(4, 10),
       signDistance |-> Float(2, 10), zebraMarkingType |-> "lines"],
      [islandWidth |-> 2 * Unit, zebraLength |-> 3 * Unit,
       signDistance |-> 1 * Unit, zebraMarkingType |-> "zebra"] }

Primitives ==
    {StraightLine(a) : a \in LineArgs}
    \cup {LeftCircularArc(a) : a \in ArcArgs}
    \cup {RightCircularArc(a) : a \in ArcArgs}
    \cup {QuadBezier(a) : a \in QuadBezierArgs}
    \cup {CubicBezier(a) : a \in CubicBezierArgs}
    \cup {Clothoid(-(Unit * Unit) \div 10, (Unit * Unit) \div 10, 10 * Unit),
          Clothoid(0, -(Unit * Unit) \div 20, 10 * Unit),
          \* no sample, and a single sample
          Clothoid(0, 0, Unit),
          Clothoid(0, (Unit * Unit) \div 100, Unit)}
    \cup {Intersection([turn |-> t, rule |-> r]) : t \in Turns, r \in Rules}
    \cup {StraightLineObstacle([length |-> 2 * Unit, width |-> Float(2, 10),
                                position |-> Float(5, 10), anchor |-> a]) :
            a \in {"left", "right", "center"}}
    \cup {ParkingObstacle([length |-> 2 * Unit, width |-> Float(2, 10)]),
          ParkingLot([length |-> 3 * Unit]),
          BlockedAreaObstacle([length |-> 2 * Unit, width |-> Float(3, 10)]),
          ZebraCrossing([length |-> Float(4, 10)]),
          Ramp([signDistance |-> Float(3, 10)])}
    \cup {TrafficSign([type |-> t]) : t \in {"stvo-274.1", "turn_left"}}
    \cup {TrafficSign([type |-> "stvo-205", on_opposite_side |-> o]) : o \in BOOLEAN}
    \cup {TrafficIsland(a) : a \in IslandArgs}

\* the road configurations: road_width is the half-width export offsets by
Configs ==
    { [road_width |-> 1 * Unit, turn_road_marking_width |-> Float(15, 100)],
      [road_width |-> Float(4, 10), turn_road_marking_width |-> Float(15, 100)] }

\* the (translation, angle) arguments of TransrotPrimitive
Transforms ==
    { <<<<0, 0>>, 0>>,
      <<<<3 * Unit, -2 * Unit>>, HalfPi>>,
      <<<<-1 * Unit, 4 * Unit>>, AngleUnit \div 2>> }

RECURSIVE Depth(_)
Depth(p) == IF p.kind = "TransrotPrimitive" THEN 1 + Depth(p.child) ELSE 0

----------------------------------------------------------------------------
(* The state machine: a primitive is constructed, queried and exported *)

NoCall == [op |-> "none"]

\* export of a Composite writing the transformed samples into the child's list
SelfAfter_written(p, method) ==
    IF method = "export" /\ p.kind = "TransrotPrimitive" /\ HasAttr(p.child, "points")
    THEN IF get_points(p).ok THEN [p EXCEPT !.child.points = get_points(p).val] ELSE p
    ELSE p

\* the primitive after a method ran on it: no method assigns a field of self or
\* writes through the list get_points returns
SelfAfter(p, method) == p

Init ==
    /\ prim \in Primitives
    /\ config \in Configs
    /\ ret = NoCall
    /\ exports = <<>>

\* TransrotPrimitive(prim, translation, angle)
Wrap(translation, angle) ==
    /\ Depth(prim) < MaxDepth
    /\ prim' = TransrotPrimitive(prim, translation, angle)
    /\ ret' = NoCall
    /\ exports' = <<>>
    /\ UNCHANGED config

CallGetPoints ==
    /\ ret' = [op |-> "get_points", res |-> get_points(prim)]
    /\ prim' = SelfAfter(prim, "get_points")
    /\ UNCHANGED <<config, exports>>

CallGetBeginning ==
    /\ ret' = [op |-> "get_beginning", res |-> get_beginning(prim)]
    /\ prim' = SelfAfter(prim, "get_beginning")
    /\ UNCHANGED <<config, exports>>

CallGetEnding ==
    /\ ret' = [op |-> "get_ending", res |-> get_ending(prim)]
    /\ prim' = SelfAfter(prim, "get_ending")
    /\ UNCHANGED <<config, exports>>

CallExport ==
    /\ Len(exports) < MaxExports
    /\ exports' = Append(exports, export(prim, config))
    /\ prim' = SelfAfter(prim, "export")
    /\ UNCHANGED <<config, ret>>

Next ==
    \/ \E t \in Transforms : Wrap(t[1], t[2])
    \/ CallGetPoints
    \/ CallGetBeginning
    \/ CallGetEnding
    \/ CallExport

Spec == Init /\ [][Next]_vars

----------------------------------------------------------------------------
(* Properties of the exported bundles *)

\* the bundles the recorded export calls returned
Bundles == {exports[i].val : i \in {j \in DOMAIN exports : exports[j].ok}}

\* the positions of b.objects that hold the lanelet with identity id
Occurrences(b, id) ==
    {k \in DOMAIN b.objects : b.objects[k].cls = "lanelet" /\ b.objects[k].id = id}

\* the classes that export through Primitive.export alone
GenericKinds ==
    {"StraightLine", "LeftCircularArc", "RightCircularArc", "QuadBezier", "CubicBezier",
     "Clothoid"}

\* the bundles returned for a primitive that does not override export
GenericBundles == IF prim.kind \in GenericKinds THEN Bundles ELSE {}

LeftPoints(b, k) == BoundaryPoints(b, b.objects[k].leftBoundary)

RightPoints(b, k) == BoundaryPoints(b, b.objects[k].rightBoundary)

\* C1: in every bundle export returns, for every primitive kind, each lanelet that
\* an entry of lanelet_pairs refers to occurs exactly once in the objects list, and
\* no lanelet is referred to by more than one pair
C1_PairedLaneletsListedOnce ==
    \A b \in Bundles :
        \A i \in DOMAIN b.lanelet_pairs : \A j \in 1..2 :
            /\ Cardinality(Occurrences(b, b.lanelet_pairs[i][j])) = 1
            /\ \A i2 \in DOMAIN b.lanelet_pairs \ {i} : \A j2 \in 1..2 :
                    b.lanelet_pairs[i2][j2] # b.lanelet_pairs[i][j]

\* a Composite around a TrafficIsland has returned its bundle of five pairs
C1_Witness ==
    /\ prim.kind = "TransrotPrimitive"
    /\ prim.child.kind = "TrafficIsland"
    /\ \E b \in Bundles : Len(b.lanelet_pairs) = 5

\* a StraightLine built with no line styles
DefaultStraightLine ==
    /\ prim.kind = "StraightLine"
    /\ prim.left_line = "solid" /\ prim.middle_line = "dashed" /\ prim.right_line = "solid"

\* C2 as stated: a StraightLine of length L with default line styles, exported with
\* half-width w, gives one lanelet pair, each lanelet's left boundary reading
\* [(0,0),(L,0)], the right lanelet's right boundary [(0,-w),(L,-w)] and the left
\* lanelet's right boundary [(0,w),(L,w)], in that point order
C2_AsStated ==
    DefaultStraightLine =>
        \A b \in Bundles :
            LET L == prim.length
                w == config.road_width
            IN  /\ Len(b.lanelet_pairs) = 1
                /\ LeftPoints(b, 1) = << <<0, 0>>, <<L, 0>> >>
                /\ LeftPoints(b, 2) = << <<0, 0>>, <<L, 0>> >>
                /\ RightPoints(b, 1) = << <<0, -w>>, <<L, -w>> >>
                /\ RightPoints(b, 2) = << <<0, w>>, <<L, w>> >>

\* C2, amended: the bundle has one lanelet pair; the right lanelet's left boundary
\* reads [(0,0),(L,0)] and its right boundary [(0,-w),(L,-w)]; the left lanelet's
\* boundaries read against the sampling order, left [(L,0),(0,0)] and right
\* [(L,w),(0,w)]
C2_StraightLineBundle ==
    DefaultStraightLine =>
        \A b \in Bundles :
            LET L == prim.length
                w == config.road_width
            IN  /\ Len(b.lanelet_pairs) = 1
                /\ LeftPoints(b, 1) = << <<0, 0>>, <<L, 0>> >>
                /\ RightPoints(b, 1) = << <<0, -w>>, <<L, -w>> >>
                /\ LeftPoints(b, 2) = << <<L, 0>>, <<0, 0>> >>
                /\ RightPoints(b, 2) = << <<L, w>>, <<0, w>> >>

\* the StraightLine of length 5 has been exported with half-width 1
C2_Witness ==
    /\ DefaultStraightLine
    /\ prim.length = 5 * Unit
    /\ config.road_width = 1 * Unit
    /\ Bundles # {}

\* twice the signed area of the triangle a, b, c: positive when c lies to the left
\* of the direction from a to b
Cross(a, b, c) == (b[1] - a[1]) * (c[2] - a[2]) - (b[2] - a[2]) * (c[1] - a[1])

\* every point of the sequence bnd lies on the given side (1 left, -1 right) of
\* the centerline segment that starts or ends at the sample it was derived from
OnSide(points, bnd, side) ==
    /\ Len(bnd) = Len(points)
    /\ \A i \in 1..Len(points) :
            LET a == IF i < Len(points) THEN points[i] ELSE points[i - 1]
                b == IF i < Len(points) THEN points[i + 1] ELSE points[i]
            IN  Sign(Cross(a, b, bnd[i])) = side

\* C3: the export of a primitive that does not override export returns exactly two
\* lanelets and exactly one pair; the pair refers to those two lanelets, first the
\* one bounded by the right offset curve, second the one bounded by the left one
C3_GenericBundleShape ==
    \A b \in GenericBundles :
        LET points == get_points(prim).val
        IN  /\ Len(b.objects) = 2
            /\ b.objects[1].cls = "lanelet" /\ b.objects[2].cls = "lanelet"
            /\ b.objects[1].id # b.objects[2].id
            /\ b.lanelet_pairs = << <<b.objects[1].id, b.objects[2].id>> >>
            /\ OnSide(points, RightPoints(b, 1), -1)
            /\ OnSide(points, Reverse(RightPoints(b, 2)), 1)

\* a curve of a hundred samples has been exported
C3_Witness ==
    /\ prim.kind = "CubicBezier"
    /\ \E b \in Bundles : Len(RightPoints(b, 1)) = 100

\* the rounding allowed when two fixed-point lengths are compared
Tolerance == 10

Dist(a, b) == Norm(a[1] - b[1], a[2] - b[2])

\* bnd[i] is the sample points[i] moved sideways by the half-width, for every i
OffsetsOf(points, bnd, road_width) ==
    /\ Len(bnd) = Len(points)
    /\ \A i \in 1..Len(points) : Abs(Dist(bnd[i], points[i]) - road_width) <= Tolerance

\* C4: in the generic export the forward lanelet's boundaries keep the sampling
\* order of the centerline and the reverse lanelet's two boundaries both run
\* against it; the forward lanelet's left boundary is the centerline and the
\* reverse lanelet's left boundary is the reversed centerline
C4_ReverseLaneletReversed ==
    \A b \in GenericBundles :
        LET points == get_points(prim).val
        IN  /\ LeftPoints(b, 1) = points
            /\ LeftPoints(b, 2) = Reverse(points)
            /\ OffsetsOf(points, RightPoints(b, 1), config.road_width)
            /\ OffsetsOf(Reverse(points), RightPoints(b, 2), config.road_width)

\* a clothoid of more than a hundred samples has been exported
C4_Witness ==
    /\ prim.kind = "Clothoid"
    /\ \E b \in Bundles : Len(LeftPoints(b, 2)) > 100

\* the marking a configured style yields: none when the style is "missing" or the
\* primitive has no such style
MarkingOf(p, style) ==
    IF style \notin DOMAIN p THEN "None"
    ELSE IF p[style] = "missing" THEN "None"
    ELSE p[style]

\* the constructor arguments that name no line style
Unstyled(args) == DOMAIN args \cap {"leftLine", "middleLine", "rightLine"} = {}

\* the primitives a constructor builds when its arguments name no line style
UnstyledPrimitives ==
    {StraightLine(a) : a \in {x \in LineArgs : Unstyled(x)}}
    \cup {LeftCircularArc(a) : a \in {x \in ArcArgs : Unstyled(x)}}
    \cup {RightCircularArc(a) : a \in {x \in ArcArgs : Unstyled(x)}}
    \cup {QuadBezier(a) : a \in {x \in QuadBezierArgs : Unstyled(x)}}

\* C5: in the generic export the forward lanelet's right boundary carries the right
\* line style, its left boundary the middle line style and the reverse lanelet's
\* right boundary the left line style; a style "missing" or a style the primitive
\* does not have gives no marking; a primitive constructed without style arguments
\* exports left = solid, middle = dashed, right = solid
C5_LineStyles ==
    \A b \in GenericBundles :
        /\ b.objects[1].rightBoundary.lineMarking = MarkingOf(prim, "right_line")
        /\ b.objects[1].leftBoundary.lineMarking = MarkingOf(prim, "middle_line")
        /\ b.objects[2].rightBoundary.lineMarking = MarkingOf(prim, "left_line")
        /\ prim \in UnstyledPrimitives =>
                /\ b.objects[2].rightBoundary.lineMarking = "solid"
                /\ b.objects[1].leftBoundary.lineMarking = "dashed"
                /\ b.objects[1].rightBoundary.lineMarking = "solid"

\* a primitive whose left style is "missing" has been exported
C5_Witness ==
    /\ prim.kind = "StraightLine"
    /\ prim.left_line = "missing"
    /\ prim.middle_line = "solid"
    /\ prim.right_line = "dashed"
    /\ \E b \in Bundles : b.objects[2].rightBoundary.lineMarking = "None"

----------------------------------------------------------------------------
(* Properties of the Composite *)

Composite == prim.kind = "TransrotPrimitive"

\* what the un-wrapped child returns for the call recorded in ret
ChildResult ==
    CASE ret.op = "get_points" -> get_points(prim.child)
      [] ret.op = "get_beginning" -> get_beginning(prim.child)
      [] ret.op = "get_ending" -> get_ending(prim.child)

\* C6 as stated: a Composite with translation (0,0) and angle 0 returns, for any
\* child, the same point sequence from get_points and the same position, heading
\* and curvature from get_beginning and get_ending as the un-wrapped child
C6_AsStated ==
    (Composite /\ prim.translation = <<0, 0>> /\ prim.angle = 0 /\ ret.op # "none")
        => ret.res = ChildResult

\* the image of point q under the Composite's rigid transform: rotation by the
\* angle about the child's start position, then the shift by the translation
RigidImage(p, q) ==
    LET begin == get_beginning(p.child).val[1]
        dx == q[1] - begin[1]
        dy == q[2] - begin[2]
    IN  <<begin[1] + Mul(Cos(p.angle), dx) - Mul(Sin(p.angle), dy) + p.translation[1],
          begin[2] + Mul(Sin(p.angle), dx) + Mul(Cos(p.angle), dy) + p.translation[2]>>

Near(a, b) == Abs(a[1] - b[1]) <= Tolerance /\ Abs(a[2] - b[2]) <= Tolerance

\* C7: for a Composite with translation T and angle a whose call returned, the
\* start position is the child's start position plus T, the start and end headings
\* are the child's plus a, the start and end curvatures are the child's, and the
\* start position, the end position and every sample of get_points are the images
\* of the child's under the rotation by a about the child's start followed by the
\* shift by T
C7_CompositePoses ==
    (Composite /\ ret.op # "none" /\ ret.res.ok) =>
        /\ ChildResult.ok
        /\ ret.op = "get_beginning" =>
                /\ ret.res.val[1] = <<ChildResult.val[1][1] + prim.translation[1],
                                      ChildResult.val[1][2] + prim.translation[2]>>
                /\ Near(ret.res.val[1], RigidImage(prim, ChildResult.val[1]))
        /\ ret.op \in {"get_beginning", "get_ending"} =>
                /\ ret.res.val[2] = ChildResult.val[2] + prim.angle
                /\ ret.res.val[3] = ChildResult.val[3]
        /\ ret.op = "get_ending" =>
                Near(ret.res.val[1], RigidImage(prim, ChildResult.val[1]))
        /\ ret.op = "get_points" =>
                /\ Len(ret.res.val) = Len(ChildResult.val)
                /\ \A i \in 1..Len(ret.res.val) :
                        Near(ret.res.val[i], RigidImage(prim, ChildResult.val[i]))

\* a rotated and shifted Intersection, whose start is not the origin, has returned
\* its end pose
C7_Witness ==
    /\ Composite
    /\ prim.child.kind = "Intersection"
    /\ prim.angle = AngleUnit \div 2
    /\ prim.translation # <<0, 0>>
    /\ ret.op = "get_ending"
    /\ ret.res.ok

\* the orientations object k of bundle b carries
Orientations(b, k) ==
    LET obj == b.objects[k]
    IN  IF obj.cls = "obstacle"
        THEN [j \in 1..Len(obj.shape.rectangle) |-> obj.shape.rectangle[j].orientation]
        ELSE IF obj.cls \in {"trafficSign", "ramp", "roadMarking"} THEN <<obj.orientation>>
        ELSE <<>>

\* C8 as stated: Composite export increments the orientation of every obstacle
\* rectangle, traffic sign, ramp and road marking of the child's bundle by the
\* Composite's rotation angle
C8_AsStated ==
    Composite =>
        \A b \in Bundles :
            LET c == export(prim.child, config).val
            IN  \A k \in DOMAIN b.objects : \A j \in DOMAIN Orientations(b, k) :
                    Orientations(b, k)[j] = Orientations(c, k)[j] + prim.angle

\* the point coordinates object k of bundle b carries
Coordinates(b, k) ==
    LET obj == b.objects[k]
    IN  IF obj.cls = "lanelet" THEN LeftPoints(b, k) \o RightPoints(b, k)
        ELSE IF obj.cls = "obstacle"
        THEN [j \in 1..Len(obj.shape.rectangle) |-> obj.shape.rectangle[j].centerPoint]
        ELSE IF obj.cls = "trafficIslandJunction"
        THEN [i \in 1..Len(obj.point) |-> b.heap[obj.point[i]]]
        ELSE <<obj.centerPoint>>

\* the primitive inside every Composite wrapper
RECURSIVE Innermost(_)
Innermost(p) == IF p.kind = "TransrotPrimitive" THEN Innermost(p.child) ELSE p

\* C9: every point coordinate of every object in the bundle a Composite returns is
\* the Composite's transform applied once to the same coordinate of the child's own
\* export; when the wrapped primitive exports through the generic export, the
\* forward lanelet's left boundary is the Composite's get_points()
C9_EveryCoordinateTransformedOnce ==
    Composite =>
        \A b \in Bundles :
            \A c \in {export(prim.child, config)}, m \in {_get_matrix(prim)} :
                /\ c.ok
                /\ Len(b.objects) = Len(c.val.objects)
                /\ \A k \in DOMAIN b.objects :
                        \A moved \in {Coordinates(b, k)}, own \in {Coordinates(c.val, k)} :
                            /\ Len(moved) = Len(own)
                            /\ \A i \in DOMAIN moved : moved[i] = Apply(m.val, own[i])
                /\ Innermost(prim).kind \in GenericKinds \cup StraightKinds =>
                        \A points \in {get_points(prim)} :
                            points.ok /\ LeftPoints(b, 1) = points.val

\* a rotated TrafficIsland, with lanelets, signs and junction polygons, has been
\* exported
C9_Witness ==
    /\ Composite
    /\ prim.child.kind = "TrafficIsland"
    /\ prim.angle = AngleUnit \div 2
    /\ \E b \in Bundles : \E k \in DOMAIN b.objects :
            b.objects[k].cls = "trafficIslandJunction" /\ Len(b.objects[k].point) > 2

----------------------------------------------------------------------------
(* Properties of the queries *)

\* a step in which get_points, get_beginning, get_ending or export ran
CallStep ==
    \/ ret'.op # "none" /\ exports' = exports
    \/ Len(exports') = Len(exports) + 1

----------------------------------------------------------------------------
(* Chaining: a second primitive placed at the end pose of a first one *)

\* the primitives chained to the one constructed
Seconds ==
    {StraightLine([length |-> 5 * Unit]),
     LeftCircularArc([radius |-> 60 * Unit, angle |-> 2]),
     Intersection([turn |-> "right", rule |-> "equal"]),
     TrafficIsland([islandWidth |-> Float(3, 10), zebraLength |-> Float(4, 10),
                    signDistance |-> Float(2, 10), zebraMarkingType |-> "lines"]),
     \* no sample: it has no start pose
     Clothoid(0, 0, Unit)}

\* the Composite that places the start pose of `second` on the end pose of `first`
Chained(first, second) ==
    LET Placed(ending, begin) ==
            IF ~ending.ok THEN ending
            ELSE IF ~begin.ok THEN begin
            ELSE Ok(TransrotPrimitive(second,
                                      <<ending.val[1][1] - begin.val[1][1],
                                        ending.val[1][2] - begin.val[1][2]>>,
                                      ending.val[2] - begin.val[2] + Pi))
    IN  Placed(get_ending(first), get_beginning(second))

Chain(second) ==
    /\ ret' = [op |-> "chain", res |-> Chained(prim, second)]
    /\ UNCHANGED <<prim, config, exports>>

ChainNext == \E second \in Seconds : Chain(second)

ChainSpec == Init /\ [][ChainNext]_vars

\* the distance between two consecutive samples of a primitive sampled in steps of
\* 0.01: the arcs step their angle, so the samples are 0.01 * radius apart
SamplingStep(p) ==
    IF p.kind \in {"LeftCircularArc", "RightCircularArc"}
    THEN RDiv(p.radius, 100)
    ELSE Unit \div 100

\* the distance between the last sample of `first` and the first sample of the
\* Composite chained to it
JunctionGap(first, chained) ==
    LET Between(own, next) ==
            Norm(next.val[1][1] - Last(own.val, 1)[1], next.val[1][2] - Last(own.val, 1)[2])
    IN  Between(get_points(first), get_points(chained))

ChainedKinds ==
    {"StraightLine", "LeftCircularArc", "RightCircularArc", "Intersection",
     "TrafficIsland"}

\* C12: when a second primitive is chained to a StraightLine, an arc, an
\* Intersection or a TrafficIsland, the second's first centerline point lies
\* within one sampling step of the first's last centerline point
C12_AsStated ==
    (ret.op = "chain" /\ ret.res.ok /\ prim.kind \in ChainedKinds)
        => JunctionGap(prim, ret.res.val) <= SamplingStep(prim)

\* the same, for every first primitive but the TrafficIsland
C12_ExceptIsland ==
    (ret.op = "chain" /\ ret.res.ok /\ prim.kind \in ChainedKinds \ {"TrafficIsland"})
        => JunctionGap(prim, ret.res.val) <= SamplingStep(prim)

\* the gap behind a TrafficIsland is its zebraLength
C12_IslandGap ==
    (ret.op = "chain" /\ ret.res.ok /\ prim.kind = "TrafficIsland")
        => JunctionGap(prim, ret.res.val) = prim.zebraLength

----------------------------------------------------------------------------
(* Properties of the poses *)

Arcs == {"LeftCircularArc", "RightCircularArc"}

\* C13 as stated: the end curvature of a right arc has the sign of its start
\* curvature (and that of a left arc the opposite sign)
C13_AsStated ==
    (ret.op = "get_ending" /\ Innermost(prim).kind \in Arcs) =>
        \A begin \in {get_beginning(prim).val[3]}, end \in {ret.res.val[3]} :
            IF Innermost(prim).kind = "LeftCircularArc"
            THEN Sign(end) = -Sign(begin)
            ELSE Sign(end) = Sign(begin)

\* C13: the start curvature of an arc of radius r is 1/r for a left arc and -1/r
\* for a right arc, and the end curvature of either arc is the start curvature
\* with its sign inverted, also behind a Composite
C13_ArcCurvature ==
    Innermost(prim).kind \in Arcs =>
        \A r \in {Innermost(prim).radius} :
            /\ ret.op = "get_beginning" =>
                    /\ Abs(Abs(ret.res.val[3]) * r - Unit * Unit * Unit) <= r \div 2
                    /\ Sign(ret.res.val[3]) =
                            (IF Innermost(prim).kind = "LeftCircularArc" THEN 1 ELSE -1)
            /\ ret.op = "get_ending" =>
                    /\ ret.res.val[3] = -get_beginning(prim).val[3]
                    /\ ret.res.val[3] # 0

\* the end pose of a rotated right arc has been asked for
C13_Witness ==
    /\ Composite
    /\ prim.angle # 0
    /\ prim.child.kind = "RightCircularArc"
    /\ ret.op = "get_ending"
    /\ ret.res.ok
    /\ ret.res.val[3] > 0

\* C14: a StraightLine of length L has the centerline (0,0), (L,0), the start pose
\* ((0,0), pi, 0) and an end pose of heading 0 and curvature 0; its end position
\* is its start position plus L * (cos(h + pi), sin(h + pi)), h the start heading,
\* and this last relation also holds when a Composite has moved the line
C14_StraightLinePoses ==
    (Innermost(prim).kind \in StraightKinds /\ ret.op # "none") =>
        \A L \in {Innermost(prim).length}, begin \in {get_beginning(prim).val} :
            /\ ret.res.ok
            /\ ret.op = "get_ending" =>
                    Near(ret.res.val[1],
                         <<begin[1][1] + Mul(Cos(begin[2] + Pi), L),
                           begin[1][2] + Mul(Sin(begin[2] + Pi), L)>>)
            /\ (~Composite /\ ret.op = "get_ending") =>
                    /\ ret.res.val[1] = <<begin[1][1] + Mul(Cos(begin[2] + Pi), L),
                                          begin[1][2] + Mul(Sin(begin[2] + Pi), L)>>
                    /\ ret.res.val[2] = 0
                    /\ ret.res.val[3] = 0
            /\ (~Composite /\ ret.op = "get_beginning") =>
                    ret.res.val = << <<0, 0>>, Pi, 0 >>
            /\ (~Composite /\ ret.op = "get_points") =>
                    ret.res.val = << <<0, 0>>, <<L, 0>> >>

\* the end pose of a StraightLine of length 2 has been asked for
C14_Witness ==
    /\ prim.kind = "StraightLine"
    /\ prim.length = 2 * Unit
    /\ ret.op = "get_ending"
    /\ ret.res.ok
    /\ ret.res.val[1] = <<2 * Unit, 0>>

----------------------------------------------------------------------------
(* The pose and bounding-geometry queries *)

\* the caller passes the road's half-width as street_width
CallGetBoundingBox ==
    /\ ret' = [op |-> "get_bounding_box", res |-> get_bounding_box(prim, config.road_width)]
    /\ prim' = SelfAfter(prim, "get_bounding_box")
    /\ UNCHANGED <<config, exports>>

QueryNext ==
    \/ \E t \in Transforms : Wrap(t[1], t[2])
    \/ CallGetBeginning
    \/ CallGetEnding
    \/ CallGetBoundingBox

QuerySpec == Init /\ [][QueryNext]_vars

\* the number of samples a query needs
RequiredPoints(p, op) ==
    IF op = "get_bounding_box" THEN 1
    ELSE IF p.kind = "Clothoid" THEN 2
    ELSE 3

\* the query recorded in ret ran on a primitive that derives it from its stored
\* samples and has fewer samples than the query needs
TooFewPoints ==
    /\ ret.op \in {"get_beginning", "get_ending", "get_bounding_box"}
    /\ HasAttr(Innermost(prim), "points")
    /\ Innermost(prim).kind # "Intersection"
    /\ Len(Innermost(prim).points) < RequiredPoints(Innermost(prim), ret.op)

\* C15: a pose or bounding-box query on a primitive with fewer samples than the
\* query needs (3 for the circle-fit poses, 2 for the Clothoid poses, 1 for
\* get_bounding_box) raises MissingPointsException
C15_AsStated ==
    TooFewPoints => ret.res = Raise("MissingPointsException")

\* such a query never returns a pose or a polygon
C15_NoDefaultedPose ==
    TooFewPoints => ~ret.res.ok

\* get_bounding_box on a primitive without samples raises MissingPointsException
C15_BoundingBoxOfNoPoints ==
    (TooFewPoints /\ ret.op = "get_bounding_box")
        => ret.res = Raise("MissingPointsException")

\* what circle_from_points returns for the three samples the pose recorded in ret
\* is derived from: the first three for get_beginning, the last three for
\* get_ending
PoseCircle ==
    LET Circle(a, b, c) == circle_from_points(a[1], a[2], b[1], b[2], c[1], c[2])
        Of(points) ==
            IF ret.op = "get_beginning"
            THEN Circle(points[1], points[2], points[3])
            ELSE Circle(Last(points, 1), Last(points, 2), Last(points, 3))
    IN  Of(Innermost(prim).points)

\* a generic pose was asked of a curve whose three samples lie on one line
FlatPose ==
    /\ ret.op \in {"get_beginning", "get_ending"}
    /\ Innermost(prim).kind \in {"QuadBezier", "CubicBezier"}
    /\ Len(Innermost(prim).points) >= 3
    /\ ~PoseCircle.found

\* C16: when the three samples of a generic pose are collinear or repeated,
\* circle_from_points finds no circle and get_beginning / get_ending return a pose
\* with curvature 0
C16_AsStated ==
    FlatPose => (ret.res.ok /\ ret.res.val[3] = 0)

\* the pose query of such a curve raises TypeError
C16_FlatPoseRaises ==
    FlatPose => ret.res = Raise("TypeError")

----------------------------------------------------------------------------
(* Properties of the TrafficIsland's export *)

Island == Innermost(prim).kind = "TrafficIsland"

\* C17: no root-finding call of TrafficIsland.export makes export fail: a sample
\* line that does not cross the curve within t in [0, 1] is skipped, so export
\* never ends with root_scalar's ValueError
C17_AsStated ==
    Island => \A i \in DOMAIN exports : exports[i] # Raise("ValueError")

\* the TrafficIslandJunction objects of bundle b
Junctions(b) ==
    {k \in DOMAIN b.objects : b.objects[k].cls = "trafficIslandJunction"}

TwoJunctions(b) ==
    /\ Cardinality(Junctions(b)) = 2
    /\ \A k \in Junctions(b) : Len(b.objects[k].point) >= 2

\* C18: export of a TrafficIsland with marking type "zebra" or "lines" completes,
\* also for islandWidth 2, zebraLength 3, signDistance 1, and its bundle has
\* exactly two TrafficIslandJunction objects of at least 2 points each
C18_AsStated ==
    Island => \A i \in DOMAIN exports : exports[i].ok /\ TwoJunctions(exports[i].val)

\* an export of a TrafficIsland either raises root_scalar's ValueError or returns
\* a bundle with two such junctions
C18_TwoJunctionsOrValueError ==
    Island => \A i \in DOMAIN exports :
                IF exports[i].ok THEN TwoJunctions(exports[i].val)
                ELSE exports[i] = Raise("ValueError")

\* the island of width 2 fails, the narrow ones are exported
C18_WideIslandFails ==
    Island => \A i \in DOMAIN exports :
                exports[i].ok <=> Innermost(prim).islandWidth < Unit

----------------------------------------------------------------------------
(* Properties of the Intersection's export *)

\* every boundary point of the lanelet at position k lies in the given approach
\* leg: beyond the crossing square on that side
InLeg(b, k, leg, reach) ==
    \A pt \in {LeftPoints(b, k)[i] : i \in DOMAIN LeftPoints(b, k)}
              \cup {RightPoints(b, k)[i] : i \in DOMAIN RightPoints(b, k)} :
        CASE leg = "south" -> pt[2] <= -reach
          [] leg = "north" -> pt[2] >= reach
          [] leg = "east" -> pt[1] >= reach
          [] leg = "west" -> pt[1] <= -reach

\* the legs of the first eight objects
LegOrder == <<"south", "south", "north", "north", "east", "east", "west", "west">>

\* the position in the objects list of the first lanelet of the exit leg
ExitPosition(turn) ==
    CASE turn = "left" -> 7
      [] turn = "right" -> 5
      [] turn = "straight" -> 3

PairAt(b, k) == <<b.objects[k].id, b.objects[k + 1].id>>

\* C19: the bundle of an Intersection, for each turn and rule, holds ten lanelets,
\* which are its first ten objects: two in the south leg, two in the north, two in
\* the east, two in the west, then the two connector lanelets; lanelet_pairs is
\* the south pair, the connector pair and the pair of the leg the turn leaves by
\* (west for left, east for right, north for straight)
C19_IntersectionLanelets ==
    prim.kind = "Intersection" =>
        \A b \in Bundles :
            /\ {k \in DOMAIN b.objects : b.objects[k].cls = "lanelet"} = 1..10
            /\ \A j, k \in 1..10 : b.objects[j].id = b.objects[k].id => j = k
            /\ \A k \in 1..8 :
                    InLeg(b, k, LegOrder[k],
                          IF config.road_width < prim.size THEN config.road_width
                          ELSE prim.size)
            /\ b.lanelet_pairs =
                    <<PairAt(b, 1), PairAt(b, 9), PairAt(b, ExitPosition(prim.target_dir))>>

\* a left turn under the rule "stop" on the narrow road has been exported
C19_Witness ==
    /\ prim.kind = "Intersection"
    /\ prim.target_dir = "left"
    /\ prim.rule = "stop"
    /\ config.road_width < prim.size
    /\ \E b \in Bundles : Len(b.lanelet_pairs) = 3

\* the types of the traffic signs in bundle b
SignTypes(b) ==
    {b.objects[k].type : k \in {j \in DOMAIN b.objects : b.objects[j].cls = "trafficSign"}}

\* an Intersection whose rule the signage lookup does not cover
UncoveredRule ==
    /\ Innermost(prim).kind = "Intersection"
    /\ Innermost(prim).rule \notin {"priority-yield", "priority-stop", "yield", "stop"}

\* C20 as stated: the export of an Intersection whose rule is outside the signage
\* lookup returns a bundle without any traffic sign
C20_AsStated ==
    UncoveredRule =>
        \A i \in DOMAIN exports : exports[i].ok /\ SignTypes(exports[i].val) = {}

\* C20: an Intersection whose rule is outside the signage lookup ("equal" or a
\* value that is no rule) has its three samples, and its export returns a bundle
\* with none of the lookup's signs; the only traffic signs are the two
\* turn-direction signs of a left or right turn, and a straight crossing has none
C20_NoRuleSigns ==
    UncoveredRule =>
        /\ Len(Innermost(prim).points) = 3
        /\ \A i \in DOMAIN exports :
            /\ exports[i].ok
            /\ SignTypes(exports[i].val) =
                    (IF Innermost(prim).target_dir = "straight" THEN {}
                     ELSE {"stvo-209-10", "stvo-209-20"})
            /\ Cardinality({k \in DOMAIN exports[i].val.objects :
                                exports[i].val.objects[k].cls = "trafficSign"}) =
                    (IF Innermost(prim).target_dir = "straight" THEN 0 ELSE 2)

\* a right turn under a rule that is none of the five has been exported
C20_Witness ==
    /\ prim.kind = "Intersection"
    /\ prim.rule = "roundabout"
    /\ prim.target_dir = "right"
    /\ Len(exports) >= 1
    /\ exports[1].ok

\* the stop lines of the eight approach-leg lanelets of an Intersection's bundle
StopLines(b) == [k \in 1..8 |-> b.objects[k].stopLine]

IsRuleSign(o) == o.cls = "trafficSign" /\ o.type \in {"stvo-306", "stvo-205", "stvo-206"}

\* the signs of the rule in bundle b, in the order of the objects list
RuleSignsOf(b) == SelectSeq(b.objects, IsRuleSign)

\* the bundle of the Intersection of the same rule and turn t
SameRule(t) == export(Intersection([turn |-> t, rule |-> prim.rule]), config).val

\* C21 as stated: two Intersections of the same rule and different turns carry
\* the same stop lines on the same approach legs and the same rule signs
C21_AsStated ==
    prim.kind = "Intersection" =>
        \A b \in Bundles, t \in Turns : \A other \in {SameRule(t)} :
            /\ StopLines(other) = StopLines(b)
            /\ RuleSignsOf(other) = RuleSignsOf(b)

\* the rule signs alone are the same for every turn: none, or two of the rule's
\* type facing south and north and two of the opposite type facing east and west,
\* each pair at point-reflected positions
C21_RuleSignsByRuleAlone ==
    prim.kind = "Intersection" =>
        \A b \in Bundles :
            /\ \A t \in Turns : RuleSignsOf(SameRule(t)) = RuleSignsOf(b)
            /\ \A signs \in {RuleSignsOf(b)} :
                IF prim.rule \in SignTypeMapKeys
                THEN /\ Len(signs) = 4
                     /\ signs[1].type = signs[2].type
                     /\ signs[3].type = signs[4].type
                     /\ signs[2].centerPoint = <<-signs[1].centerPoint[1], -signs[1].centerPoint[2]>>
                     /\ signs[4].centerPoint = <<-signs[3].centerPoint[1], -signs[3].centerPoint[2]>>
                ELSE signs = <<>>

\* under "priority-yield" and "priority-stop" the stop lines of the east and west
\* legs are set for the straight crossing only
C21_StopLinesByTurn ==
    (prim.kind = "Intersection" /\ prim.rule \in {"priority-yield", "priority-stop"}) =>
        \A b \in Bundles :
            (StopLines(b)[6] # "None") <=> prim.target_dir = "straight"

----------------------------------------------------------------------------
(* Properties of the decorated straights' export *)

DecoratedKinds == StraightKinds \ {"StraightLine"}

\* the StraightLine of the length and line styles of decorated straight p
PlainOf(p) ==
    StraightLine([length |-> p.length, leftLine |-> p.left_line,
                  middleLine |-> p.middle_line, rightLine |-> p.right_line,
                  isStart |-> p.is_start])

\* what kind of scene object o is
Tag(o) ==
    CASE o.cls = "lanelet" -> (IF o.type = "zebraCrossing" THEN "zebraCrossing" ELSE "lanelet")
      [] o.cls = "obstacle" -> o.type
      [] OTHER -> o.cls

\* the objects a decorated straight appends to the StraightLine's two lanelets
AppendedTags(kind) ==
    CASE kind = "StraightLineObstacle" -> {<<"parkedVehicle">>}
      [] kind = "ParkingObstacle" -> {<<"parkedVehicle", "lanelet">>}
      [] kind = "ParkingLot" -> {<<"lanelet">>}
      [] kind = "BlockedAreaObstacle" -> {<<"blockedArea">>}
      [] kind = "ZebraCrossing" -> {<<"zebraCrossing">>}
      [] kind = "TrafficSign" -> {<<"trafficSign">>, <<"trafficSign", "roadMarking">>}
      [] kind = "Ramp" ->
            {<<"ramp", "trafficSign", "trafficSign", "trafficSign", "trafficSign">>}

\* C22: the bundle of a decorated straight starts with the two lanelets of the
\* StraightLine of its length and line styles, boundary points included, holds
\* that one lanelet pair and no other, and continues with the objects of its own
\* kind only; an appended lanelet is in no pair
C22_DecoratedStraights ==
    prim.kind \in DecoratedKinds =>
        \A b \in Bundles : \A plain \in {export(PlainOf(prim), config).val} :
            /\ Len(b.objects) >= 2
            /\ SubSeq(b.objects, 1, 2) = plain.objects
            /\ \A k \in 1..2 : /\ LeftPoints(b, k) = LeftPoints(plain, k)
                               /\ RightPoints(b, k) = RightPoints(plain, k)
            /\ b.lanelet_pairs = <<PairAt(b, 1)>>
            /\ [k \in 1..(Len(b.objects) - 2) |-> Tag(b.objects[k + 2])]
                    \in AppendedTags(prim.kind)
            /\ \A k \in 3..Len(b.objects) :
                    b.objects[k].cls = "lanelet" =>
                        \A i \in DOMAIN b.lanelet_pairs :
                            /\ b.lanelet_pairs[i][1] # b.objects[k].id
                            /\ b.lanelet_pairs[i][2] # b.objects[k].id

\* a ParkingObstacle, which appends an obstacle and a lanelet, has been exported
C22_Witness ==
    /\ prim.kind = "ParkingObstacle"
    /\ \E b \in Bundles : Len(b.objects) = 4 /\ b.objects[4].cls = "lanelet"

----------------------------------------------------------------------------
(* Properties of the Clothoid's samples *)

\* a Clothoid(-k, k, A) with k > 0 has returned its points
SymmetricClothoid ==
    /\ prim.kind = "Clothoid"
    /\ prim.curv_end > 0
    /\ prim.curv_begin = -prim.curv_end
    /\ ret.op = "get_points"

\* C23: the points of Clothoid(-k, k, A) are point-reflection-symmetric about the
\* origin: with every sample (x, y) the point (-x, -y) is sampled too
C23_AsStated ==
    SymmetricClothoid =>
        \A i \in DOMAIN ret.res.val :
            \E j \in DOMAIN ret.res.val :
                ret.res.val[j] = <<-ret.res.val[i][1], -ret.res.val[i][2]>>

\* no sample of Clothoid(-k, k, A) lies below the x axis: the half before the
\* origin is the half behind it mirrored at the y axis
C23_BothHalvesAbove ==
    SymmetricClothoid =>
        /\ \A i \in DOMAIN ret.res.val : ret.res.val[i][2] >= 0
        /\ \E i, j \in DOMAIN ret.res.val :
                /\ ret.res.val[i][1] < 0 /\ ret.res.val[i][2] > 0
                /\ ret.res.val[j][1] > 0 /\ ret.res.val[j][2] > 0

\* the starting and the merging junction of an island bundle: the last two objects
StartingJunction(b) == b.objects[Len(b.objects) - 1]

MergingJunction(b) == b.objects[Len(b.objects)]

\* x position where the split section ends and the crossing starts
CrossingStart(p) == p.padding + p.curve_area_length

\* C24: in TrafficIsland.export the points computed from the merge-section curves
\* go to the merging junction and none of them to the starting junction: every
\* point of the starting junction lies at or before the start of the crossing
C24_AsStated ==
    (Island /\ ~Composite) =>
        \A i \in DOMAIN exports : exports[i].ok =>
            \A j \in DOMAIN StartingJunction(exports[i].val).point :
                BoundaryPoints(exports[i].val, StartingJunction(exports[i].val))[j][1]
                    <= CrossingStart(prim)

\* the merging junction keeps the two corner points it was created with
C24_MergingJunctionKeepsCorners ==
    Island => \A i \in DOMAIN exports : exports[i].ok =>
                Len(MergingJunction(exports[i].val).point) = 2

----------------------------------------------------------------------------
(* The offsets of the generic export *)

\* o is the left-hand perpendicular of the segment from a to b, of length w
LeftHandOffset(a, b, o, w) ==
    LET Perpendicular(sx, sy) ==
            /\ Abs(sx * o[1] + sy * o[2]) <= Tolerance * Norm(sx, sy)
            /\ sx * o[2] - sy * o[1] > 0
    IN  /\ Perpendicular(b[1] - a[1], b[2] - a[2])
        /\ Abs(Norm(o[1], o[2]) - w) <= Tolerance

\* the offsets of bundle b at the samples pts: at sample k the right boundary of
\* the forward lanelet lies at pts[k] - o and that of the reverse lanelet, read
\* backwards, at pts[k] + o, where o is the left-hand perpendicular of the segment
\* to the next sample and, at the last sample, the o of the sample before
SampleOffsets(b, pts, w) ==
    LET n == Len(pts)
        Offsets(right, left) ==
            \A k \in 1..n :
                /\ VSub(pts[k], right[k]) = VSub(left[n + 1 - k], pts[k])
                /\ IF k < n
                   THEN LeftHandOffset(pts[k], pts[k + 1], VSub(left[n + 1 - k], pts[k]), w)
                   ELSE VSub(left[1], pts[n]) = VSub(left[2], pts[n - 1])
    IN  /\ \A k \in 1..2 : /\ Len(b.objects[k].leftBoundary.point) = n
                           /\ Len(b.objects[k].rightBoundary.point) = n
        /\ Offsets(RightPoints(b, 1), RightPoints(b, 2))

\* C25: in the generic export each boundary has as many points as the centerline,
\* the offset of every sample but the last is the left-hand perpendicular of the
\* segment to the next sample scaled to the road half-width, the right offset is
\* its negation, the last sample reuses the offset of the last segment, and the
\* export fails exactly for a centerline of a single sample
C25_GenericOffsets ==
    prim.kind \in GenericKinds =>
        \A pts \in {get_points(prim).val} : \A i \in DOMAIN exports :
            IF Len(pts) = 1 THEN ~exports[i].ok
            ELSE exports[i].ok /\ SampleOffsets(exports[i].val, pts, config.road_width)

C25_Witness ==
    /\ prim.kind \in GenericKinds
    /\ Len(get_points(prim).val) >= 3
    /\ Len(exports) > 0
    /\ exports[1].ok

----------------------------------------------------------------------------
(* The sections of the TrafficIsland's export *)

\* the x and the y coordinates of the boundary points of the lanelet at position k
LaneletXs(b, k) == {LeftPoints(b, k)[i][1] : i \in DOMAIN LeftPoints(b, k)}
                   \cup {RightPoints(b, k)[i][1] : i \in DOMAIN RightPoints(b, k)}

LaneletYs(b, k) == {LeftPoints(b, k)[i][2] : i \in DOMAIN LeftPoints(b, k)}
                   \cup {RightPoints(b, k)[i][2] : i \in DOMAIN RightPoints(b, k)}

\* where the lanelet at position k starts and ends along the principal direction
StartX(b, k) == CHOOSE x \in LaneletXs(b, k) : \A y \in LaneletXs(b, k) : x <= y

EndX(b, k) == CHOOSE x \in LaneletXs(b, k) : \A y \in LaneletXs(b, k) : y <= x

\* the objects of an island bundle: ten lanelets, right ones (on or below the
\* centerline) at the odd positions and left ones at the even positions, paired
\* section by section, two stvo-222 signs, the junction at the start of the
\* crossing and the junction at its end
IslandObjects(b, p) ==
    /\ Len(b.objects) = 14
    /\ \A k \in 1..10 : /\ b.objects[k].cls = "lanelet"
                        /\ \A y \in LaneletYs(b, k) : IF k % 2 = 1 THEN y <= 0 ELSE y >= 0
    /\ b.lanelet_pairs = [s \in 1..5 |-> PairAt(b, 2 * s - 1)]
    /\ \A k \in 11..12 : b.objects[k].cls = "trafficSign" /\ b.objects[k].type = "stvo-222"
    /\ \A k \in 13..14 : b.objects[k].cls = "trafficIslandJunction"
    /\ b.heap[StartingJunction(b).point[1]][1] = CrossingStart(p)
    /\ b.heap[MergingJunction(b).point[1]][1] = CrossingStart(p) + p.zebraLength

\* the lanelets of section s end where those of section s + 1 start
Meet(b, s) ==
    \A side \in 0..1 : EndX(b, 2 * s - 1 + side) = StartX(b, 2 * s + 1 + side)

\* the padding starts at the first and the end padding stops at the last
\* centerline point
IslandEnds(b, p) ==
    \A side \in 0..1 : /\ StartX(b, 1 + side) = 0
                       /\ EndX(b, 9 + side) = get_points(p).val[2][1]

\* C26: TrafficIsland.export returns the ten lanelets in the order padding, split,
\* crossing, merge, end padding, (right, left) each, with five pairs in that
\* order, then two stvo-222 signs, then the starting and the merging junction;
\* each section ends at the x position where the next one starts and the end
\* padding stops at the last centerline point
C26_AsStated ==
    (Island /\ ~Composite) =>
        \A i \in DOMAIN exports : exports[i].ok =>
            /\ IslandObjects(exports[i].val, prim)
            /\ \A s \in 1..4 : Meet(exports[i].val, s)
            /\ IslandEnds(exports[i].val, prim)

\* the order of the objects and of the pairs is as C26 has it, and the sections
\* meet where no curve is involved
C26_IslandObjects ==
    (Island /\ ~Composite) =>
        \A i \in DOMAIN exports : exports[i].ok =>
            /\ IslandObjects(exports[i].val, prim)
            /\ Meet(exports[i].val, 1)
            /\ Meet(exports[i].val, 3)
            /\ IslandEnds(exports[i].val, prim)

\* the curves of the merge section stop short of the end padding, and so do those
\* of the split section before the crossing unless the marking type "zebra"
\* extends the split lanelets to the end of the crossing
C26_CurvesStopShort ==
    (Island /\ ~Composite) =>
        \A i \in DOMAIN exports : exports[i].ok =>
            \A side \in 0..1 :
                /\ EndX(exports[i].val, 7 + side) < StartX(exports[i].val, 9 + side)
                /\ IF prim.zebraMarkingType = "zebra"
                   THEN EndX(exports[i].val, 3 + side) = EndX(exports[i].val, 5 + side)
                   ELSE EndX(exports[i].val, 3 + side) < StartX(exports[i].val, 5 + side)

\* the boundary point sequence pts runs against the principal direction (1, 0)
Against(pts) ==
    /\ pts[1][1] > pts[Len(pts)][1]
    /\ \A j \in 1..(Len(pts) - 1) : pts[j][1] >= pts[j + 1][1]

\* both boundaries of the lanelet at position k run against the principal direction
RunsAgainst(b, k) == Against(LeftPoints(b, k)) /\ Against(RightPoints(b, k))

\* C27: in TrafficIsland.export, for both marking types, the boundary point
\* sequences of every left-side lanelet (padding_left, split_left, crossing_left,
\* merge_left, end_padding_left) run against the principal direction
C27_AsStated ==
    (Island /\ ~Composite) =>
        \A i \in DOMAIN exports : exports[i].ok =>
            \A k \in {2, 4, 6, 8, 10} : RunsAgainst(exports[i].val, k)

\* padding_left, split_left and merge_left run against the principal direction,
\* and so does crossing_left under marking type "lines"; end_padding_left keeps
\* the order of end_padding_right
C27_EndPaddingLeftNotReversed ==
    (Island /\ ~Composite) =>
        \A i \in DOMAIN exports : exports[i].ok =>
            /\ \A k \in {2, 4, 8} : RunsAgainst(exports[i].val, k)
            /\ prim.zebraMarkingType = "lines" => RunsAgainst(exports[i].val, 6)
            /\ LeftPoints(exports[i].val, 10) = LeftPoints(exports[i].val, 9)
            /\ ~RunsAgainst(exports[i].val, 10)

----------------------------------------------------------------------------
(* Lanelets of every export *)

\* the lanelets of bundle b
LaneletsOf(b) == {k \in DOMAIN b.objects : b.objects[k].cls = "lanelet"}

\* C28: in every lanelet of every bundle an export returns (generic, decorated
\* straights, Intersection, TrafficIsland, and a Composite around any of them)
\* the left and the right boundary have the same number of points
C28_BoundariesOfEqualLength ==
    \A i \in DOMAIN exports : exports[i].ok =>
        \A k \in LaneletsOf(exports[i].val) :
            Len(exports[i].val.objects[k].leftBoundary.point)
                = Len(exports[i].val.objects[k].rightBoundary.point)

C28_Witness ==
    /\ Composite /\ Island
    /\ Len(exports) > 0
    /\ exports[1].ok
    /\ \E k \in LaneletsOf(exports[1].val) :
            Len(exports[1].val.objects[k].rightBoundary.point) >= 100

----------------------------------------------------------------------------
(* The generic poses on the samples of the circular arcs *)

\* the curvature signs <<start, end>> that Primitive.get_beginning and
\* Primitive.get_ending derive from the samples of p
SampledSigns(p) ==
    LET Signs(begin, end) ==
            IF begin.ok /\ end.ok THEN <<Sign(begin.val[3]), Sign(end.val[3])>>
            ELSE <<"raised", "raised">>
        From(points) == Signs(PrimitiveGetBeginning(points), PrimitiveGetEnding(points))
    IN  From(get_points(p).val)

\* the curvature signs <<start, end>> of the closed-form poses of p
ClosedFormSigns(p) == <<Sign(get_beginning(p).val[3]), Sign(get_ending(p).val[3])>>

\* C29: applied to the samples of a left-turning arc, the generic pose-from-samples
\* derivation yields the same curvature sign at the start and at the end as
\* LeftCircularArc.get_beginning / get_ending, and likewise for RightCircularArc
C29_AsStated ==
    prim.kind \in Arcs => SampledSigns(prim) = ClosedFormSigns(prim)

\* on the samples of either arc the generic derivation yields, at both ends, the
\* sign opposite to that of the arc's closed-form pose
C29_OppositeSigns ==
    prim.kind \in Arcs =>
        /\ SampledSigns(prim)[1] = -ClosedFormSigns(prim)[1]
        /\ SampledSigns(prim)[2] = -ClosedFormSigns(prim)[2]
        /\ ClosedFormSigns(prim)[1] # 0

----------------------------------------------------------------------------
(* The preset parser: preset_parser.parse *)

\* number of entries of a preset's primitives list
MaxEntries == 3

\* the entries of a primitives list: a mapping from the kind to its parameters
PresetEntries ==
    { [straight_line |-> [length |-> 2 * Unit]],
      [right_arc |-> [radius |-> 3 * Unit, angle |-> 90]],
      [left_arc |-> [radius |-> 2 * Unit, angle |-> 45]],
      [zebra_crossing |-> [length |-> Float(4, 10)]] }

\* the data yaml.load returns
PresetFiles ==
    { [road_width |-> Float(4, 10), primitives |-> entries] :
        entries \in UNION {[1..n -> PresetEntries] : n \in 0..MaxEntries} }

\* a number passed as a positional argument
PyFloat(x) == [float |-> x]

\* cls(*positional): __init__(self, args) takes one argument and subscripts it
New(cls, positional) ==
    IF Len(positional) # 1 THEN Raise("TypeError")
    ELSE IF "float" \in DOMAIN positional[1] THEN Raise("TypeError")
    ELSE Ok(CASE cls = "StraightLine" -> StraightLine(positional[1])
              [] cls = "RightCircularArc" -> RightCircularArc(positional[1]))

\* the loop over data["primitives"] from entry i on
RECURSIVE parse_loop(_, _, _)
parse_loop(preset, entries, i) ==
    IF i > Len(entries) THEN Ok(preset)
    ELSE LET Added(made) ==
                IF ~made.ok THEN made
                ELSE parse_loop([preset EXCEPT !.primitives = Append(@, made.val)],
                                entries, i + 1)
             Entry(p) ==
                IF "straight_line" \in DOMAIN p
                THEN Added(New("StraightLine", <<PyFloat(p.straight_line.length)>>))
                ELSE IF "right_arc" \in DOMAIN p
                THEN Added(New("RightCircularArc",
                               <<PyFloat(p.right_arc.radius),
                                 PyFloat(Radians(p.right_arc.angle))>>))
                ELSE IF "left_arc" \in DOMAIN p
                THEN Added(New("RightCircularArc",
                               <<PyFloat(p.left_arc.radius),
                                 PyFloat(Radians(p.left_arc.angle))>>))
                ELSE parse_loop(preset, entries, i + 1)
         IN  Entry(entries[i])

\* parse(path), given the data loaded from the file
parse(data) ==
    parse_loop([road_width |-> data.road_width, primitives |-> <<>>], data.primitives, 1)

\* no primitive is constructed before a preset is parsed
ParseInit ==
    /\ prim = [kind |-> "none"]
    /\ config \in Configs
    /\ ret = NoCall
    /\ exports = <<>>

CallParse ==
    /\ \E data \in PresetFiles : ret' = [op |-> "parse", data |-> data, res |-> parse(data)]
    /\ UNCHANGED <<prim, config, exports>>

ParseNext == CallParse

ParseSpec == ParseInit /\ [][ParseNext]_vars

\* the primitive kind an entry of the primitives list stands for, "none" for an
\* entry of unknown kind
EntryKind(p) ==
    IF "straight_line" \in DOMAIN p THEN "StraightLine"
    ELSE IF "right_arc" \in DOMAIN p THEN "RightCircularArc"
    ELSE IF "left_arc" \in DOMAIN p THEN "LeftCircularArc"
    ELSE "none"

\* the kinds of the recognised entries, in input order
RECURSIVE RecognisedKinds(_, _)
RecognisedKinds(entries, i) ==
    IF i > Len(entries) THEN <<>>
    ELSE (IF EntryKind(entries[i]) = "none" THEN <<>> ELSE <<EntryKind(entries[i])>>)
         \o RecognisedKinds(entries, i + 1)

\* C30: parse maps each entry of the primitives list, in order, to a primitive of
\* the entry's kind (straight_line to StraightLine, right_arc to RightCircularArc,
\* left_arc to LeftCircularArc); an entry of unknown kind adds no primitive and
\* does not abort parsing
C30_AsStated ==
    ret.op = "parse" =>
        /\ ret.res.ok
        /\ [k \in DOMAIN ret.res.val.primitives |-> ret.res.val.primitives[k].kind]
              = RecognisedKinds(ret.data.primitives, 1)

\* parse returns only for a list without an entry of a recognised kind, and then
\* with no primitive; a recognised entry ends it with the TypeError of the
\* constructor it calls
C30_RecognisedEntryRaises ==
    ret.op = "parse" =>
        IF RecognisedKinds(ret.data.primitives, 1) = <<>>
        THEN ret.res = Ok([road_width |-> ret.data.road_width, primitives |-> <<>>])
        ELSE ret.res = Raise("TypeError")

====
